---- MODULE Spec2Model ----
(***************************************************************************)
(* Model of the FitScore calculator (fitscore_calculator.py) and of its    *)
(* two HTTP endpoints (main.py).                                           *)
(*                                                                         *)
(* Numbers.  Python floats are modelled as exact rationals <<n, d>> in     *)
(* lowest terms with d > 0, so that equal values are equal tuples.         *)
(* Texts.  A text is the set of the known substrings ("atoms") it          *)
(* contains; `kw in text.lower()` is atom membership.  The empty set is    *)
(* the empty string; the atom "other" stands for text that triggers no     *)
(* keyword.                                                                *)
(***************************************************************************)
EXTENDS Integers, Sequences, FiniteSets, TLC


----------------------------------------------------------------------------
(* Exact rational arithmetic standing for Python float arithmetic *)

RECURSIVE GCD(_, _)
GCD(a, b) == IF b = 0 THEN a ELSE GCD(b, a % b)

Abs(x) == IF x < 0 THEN -x ELSE x

R(n, d) ==
    LET s == IF d < 0 THEN -1 ELSE 1
        g == GCD(Abs(n), Abs(d))
    IN  <<(s * n) \div g, (s * d) \div g>>

Dec(h) == R(h, 100)

RAdd(a, b) == R(a[1] * b[2] + b[1] * a[2], a[2] * b[2])
RSub(a, b) == R(a[1] * b[2] - b[1] * a[2], a[2] * b[2])
RMul(a, b) == R(a[1] * b[1], a[2] * b[2])
RDiv(a, b) == R(a[1] * b[2], a[2] * b[1])
RLt(a, b) == a[1] * b[2] < b[1] * a[2]
RLe(a, b) == a[1] * b[2] <= b[1] * a[2]
RGe(a, b) == RLe(b, a)
RMin(a, b) == IF RLe(a, b) THEN a ELSE b

(* A JSON/dict value that is not a number (a string such as the Insight    *)
(* Service's "reasoning" text) is the pair with denominator 0.             *)
NotANumber == <<0, 0>>
IsNum(v) == v[2] # 0

RECURSIVE RSumSeq(_)
RSumSeq(s) == IF s = <<>> THEN R(0, 1) ELSE RAdd(Head(s), RSumSeq(Tail(s)))

----------------------------------------------------------------------------
(* Weight vectors *)

FactorKeys == <<"education", "career_trajectory", "company_relevance",
                "tenure_stability", "most_important_skills", "bonus_signals">>

WeightKeys == FactorKeys \o <<"red_flags">>

default_weights ==
    [k \in {WeightKeys[i] : i \in 1..7} |->
        CASE k = "education" -> Dec(20)
          [] k = "career_trajectory" -> Dec(20)
          [] k = "company_relevance" -> Dec(15)
          [] k = "tenure_stability" -> Dec(15)
          [] k = "most_important_skills" -> Dec(20)
          [] k = "bonus_signals" -> Dec(5)
          [] k = "red_flags" -> Dec(-15)]

(* `kw in text.lower()` *)
Contains(text, kw) == kw \in text

(* A dict object is [ref, val]: ref names the object ("default" is the     *)
(* calculator's default_weights, "company" the caller's company_weights,   *)
(* "fresh" an object created during the call), val is its content.  An     *)
(* outcome adds exc, the exception raised ("none" when none).              *)
EmptyDict == [k \in {} |-> NotANumber]
NoExc(ref, v) == [exc |-> "none", ref |-> ref, val |-> v]
Raised(e) == [exc |-> e, ref |-> "fresh", val |-> EmptyDict]

(* weights.copy(): a new object with the same content *)
copy_aliased(weights) == weights

copy(weights) == [ref |-> "fresh", val |-> weights.val]

(* adjusted_weights[key] += delta, on an outcome of the previous statement *)
Bump(o, key, delta) ==
    IF o.exc # "none" THEN o
    ELSE IF key \notin DOMAIN o.val THEN Raised("KeyError")
    ELSE IF ~IsNum(o.val[key]) THEN Raised("TypeError")
    ELSE NoExc(o.ref, [o.val EXCEPT ![key] = RAdd(@, delta)])

(* sum(adjusted_weights.values()): every value of the dict, red_flags included *)
RECURSIVE SumValues(_, _)
SumValues(w, ks) ==
    IF ks = {} THEN R(0, 1)
    ELSE LET k == CHOOSE x \in ks : TRUE
         IN  RAdd(w[k], SumValues(w, ks \ {k}))

WeightTotal(w) == SumValues(w, DOMAIN w)

Normalize(o) ==
    IF o.exc # "none" THEN o
    ELSE IF \E k \in DOMAIN o.val : ~IsNum(o.val[k]) THEN Raised("TypeError")
    ELSE LET total_weight == WeightTotal(o.val)
         IN  IF total_weight = R(1, 1) THEN o
             ELSE IF (DOMAIN o.val) \ {"red_flags"} = {} THEN o
             ELSE IF total_weight = R(0, 1) THEN Raised("ZeroDivisionError")
             ELSE NoExc(o.ref, [k \in DOMAIN o.val |->
                                  IF k # "red_flags" THEN RDiv(o.val[k], total_weight)
                                  ELSE o.val[k]])

adjust_weights_for_collateral(weights, collateral) ==
    LET c == copy(weights)
        adjusted_weights == NoExc(c.ref, c.val)
        shifted ==
            IF Contains(collateral, "startup") \/ Contains(collateral, "early-stage")
            THEN Bump(Bump(Bump(Bump(adjusted_weights,
                     "most_important_skills", Dec(5)),
                     "company_relevance", Dec(5)),
                     "education", Dec(-5)),
                     "tenure_stability", Dec(-5))
            ELSE IF Contains(collateral, "enterprise") \/ Contains(collateral, "large company")
            THEN Bump(Bump(Bump(Bump(adjusted_weights,
                     "education", Dec(5)),
                     "tenure_stability", Dec(5)),
                     "most_important_skills", Dec(-5)),
                     "company_relevance", Dec(-5))
            ELSE IF Contains(collateral, "leadership") \/ Contains(collateral, "management")
            THEN Bump(Bump(Bump(adjusted_weights,
                     "career_trajectory", Dec(5)),
                     "bonus_signals", Dec(2)),
                     "most_important_skills", Dec(-7))
            ELSE adjusted_weights
    IN  Normalize(shifted)

(* Sum of the six non-penalty weights of a well-formed vector *)
SixSum(w) == RSumSeq([i \in 1..6 |-> w[FactorKeys[i]]])

----------------------------------------------------------------------------
(* Keyword scans: any(word in text for word in words) *)

AnyIn(words, text) == \E i \in 1..Len(words) : Contains(text, words[i])

Count(words, text) == Cardinality({i \in 1..Len(words) : Contains(text, words[i])})

Tenths(x) == R(x, 10)

(* Bonus signals and red flags: one hit per keyword present in the resume *)

exceptional_signals == <<"patent", "published", "forbes", "founder", "board", "olympic",
                         "military", "ted talk", "book", "award", "media coverage">>
strong_signals == <<"open source", "speaking", "teaching", "certification",
                    "hackathon", "leadership", "volunteer", "side project">>
some_signals == <<"portfolio", "community", "course", "competition", "language">>

evaluate_bonus_signals(resume_text) ==
    LET bonus_score == 5 * Count(exceptional_signals, resume_text)
                       + 3 * Count(strong_signals, resume_text)
                       + Count(some_signals, resume_text)
    IN  RMin(R(5, 1), R(bonus_score, 1))

major_flags == <<"falsified", "plagiarized", "criminal", "ethical violation",
                 "diploma mill", "unaccredited">>
moderate_flags == <<"job hopping", "employment gap", "no progression",
                    "short tenure", "concerning pattern">>
minor_flags == <<"overqualified", "location mismatch", "missing certification">>

(* The penalty held to the 15 points of one major flag *)
evaluate_red_flags_capped(resume_text) ==
    LET penalty == 0 - 15 * Count(major_flags, resume_text)
                     - 10 * Count(moderate_flags, resume_text)
                     - 5 * Count(minor_flags, resume_text)
    IN  R(IF penalty < -15 THEN -15 ELSE penalty, 1)

evaluate_red_flags(resume_text) ==
    R(0 - 15 * Count(major_flags, resume_text)
        - 10 * Count(moderate_flags, resume_text)
        - 5 * Count(minor_flags, resume_text), 1)

(* Skills match *)

tech_skills ==
    <<"python", "java", "javascript", "typescript", "go", "rust", "c++", "c#", "php",
      "ruby", "swift", "kotlin", "scala",
      "react", "vue", "angular", "node.js", "express", "django", "flask", "spring",
      "laravel", "asp.net",
      "aws", "azure", "gcp", "docker", "kubernetes", "jenkins", "gitlab", "github",
      "terraform", "ansible",
      "sql", "mysql", "postgresql", "mongodb", "redis", "elasticsearch", "dynamodb",
      "cassandra",
      "machine learning", "ai", "data science", "tensorflow", "pytorch", "scikit-learn",
      "pandas", "numpy", "spark", "hadoop",
      "ios", "android", "react native", "flutter", "xamarin", "electron",
      "graphql", "rest api", "microservices", "serverless", "blockchain",
      "cybersecurity", "devops", "sre">>

extract_skills(text) == SelectSeq(tech_skills, LAMBDA sk : Contains(text, sk))

skill_matches(required_skill, candidate_skills) ==
    \E i \in 1..Len(candidate_skills) : candidate_skills[i] = required_skill

(* The top band entered above 90% only *)
evaluate_most_important_skills_strict(resume_text, job_description) ==
    LET required_skills == extract_skills(job_description)
        candidate_skills == extract_skills(resume_text)
        matches == SelectSeq(required_skills,
                             LAMBDA sk : skill_matches(sk, candidate_skills))
        missing == SelectSeq(required_skills,
                             LAMBDA sk : ~skill_matches(sk, candidate_skills))
    IN  IF required_skills = <<>>
        THEN [score |-> R(5, 1), error |-> "No required skills identified",
              matches |-> <<>>, missing |-> <<>>]
        ELSE LET match_percentage == R(Len(matches) * 100, Len(required_skills))
                 skills_score ==
                     IF RLt(R(90, 1), match_percentage) THEN R(9, 1)
                     ELSE IF RGe(match_percentage, R(80, 1)) THEN Tenths(75)
                     ELSE IF RGe(match_percentage, R(70, 1)) THEN R(6, 1)
                     ELSE IF RGe(match_percentage, R(50, 1)) THEN R(4, 1)
                     ELSE R(1, 1)
             IN  [score |-> skills_score, error |-> "",
                  matches |-> matches, missing |-> missing]

evaluate_most_important_skills(resume_text, job_description) ==
    LET required_skills == extract_skills(job_description)
        candidate_skills == extract_skills(resume_text)
        matches == SelectSeq(required_skills,
                             LAMBDA sk : skill_matches(sk, candidate_skills))
        missing == SelectSeq(required_skills,
                             LAMBDA sk : ~skill_matches(sk, candidate_skills))
    IN  IF required_skills = <<>>
        THEN [score |-> R(5, 1), error |-> "No required skills identified",
              matches |-> <<>>, missing |-> <<>>]
        ELSE LET match_percentage == R(Len(matches) * 100, Len(required_skills))
                 skills_score ==
                     IF RGe(match_percentage, R(90, 1)) THEN R(9, 1)
                     ELSE IF RGe(match_percentage, R(80, 1)) THEN Tenths(75)
                     ELSE IF RGe(match_percentage, R(70, 1)) THEN R(6, 1)
                     ELSE IF RGe(match_percentage, R(50, 1)) THEN R(4, 1)
                     ELSE R(1, 1)
             IN  [score |-> skills_score, error |-> "",
                  matches |-> matches, missing |-> missing]

----------------------------------------------------------------------------
(* Classifier tables (names lower-cased as the lookups lower-case them),   *)
(* in dictionary and list order.                                           *)

tier1_schools == <<
    [category |-> "US_TOP15", schools |-> <<
         "mit", "stanford", "harvard", "berkeley", "cmu", "caltech", "princeton",
         "yale", "columbia", "upenn", "cornell", "university of chicago",
         "northwestern", "johns hopkins", "brown">>],
    [category |-> "ENGINEERING_CS_ELITE", schools |-> <<
         "university of waterloo", "georgia tech", "uiuc", "ut austin",
         "uw seattle", "purdue", "virginia tech">>],
    [category |-> "INTERNATIONAL_ELITE", schools |-> <<
         "oxford", "cambridge", "eth zurich", "university of toronto", "iit",
         "tsinghua", "peking university", "national university of singapore",
         "university of melbourne", "kaist", "technion">>],
    [category |-> "BUSINESS_ELITE", schools |-> <<
         "wharton", "harvard business", "stanford gsb", "kellogg", "booth",
         "sloan">>],
    [category |-> "MEDICAL_ELITE", schools |-> <<
         "harvard medical", "johns hopkins", "ucsf", "mayo clinic",
         "stanford medical", "penn medical">>],
    [category |-> "LAW_ELITE", schools |-> <<
         "harvard law", "yale law", "stanford law", "columbia law", "nyu law",
         "chicago law">>]>>

tier2_schools == <<
    [category |-> "STRONG_UNIVERSITIES", schools |-> <<
         "ucla", "ucsd", "usc", "michigan", "wisconsin", "washington",
         "north carolina", "virginia", "nyu", "boston university", "rice",
         "vanderbilt", "emory", "georgetown", "notre dame", "duke", "dartmouth",
         "william & mary", "boston college">>],
    [category |-> "ENGINEERING_STRONG", schools |-> <<
         "texas a&m", "penn state", "ohio state", "arizona state", "uc irvine",
         "uc davis", "rutgers", "maryland", "uc santa barbara", "uc santa cruz",
         "northeastern", "rit", "wpi", "rpi", "stevens tech",
         "colorado school of mines">>],
    [category |-> "INTERNATIONAL_STRONG", schools |-> <<
         "mcgill", "ubc", "queen's", "london school of economics",
         "imperial college", "university of sydney", "anu",
         "university of hong kong", "hkust", "sciences po", "bocconi">>]>>

specialty_programs == <<
    [category |-> "CS_LEADERS", schools |-> <<
         "mit", "stanford", "cmu", "berkeley", "waterloo", "uiuc", "georgia tech",
         "ut austin", "uw seattle">>],
    [category |-> "ENGINEERING_LEADERS", schools |-> <<
         "mit", "stanford", "berkeley", "caltech", "cmu", "georgia tech", "purdue",
         "michigan", "uiuc">>],
    [category |-> "BUSINESS_MBA_LEADERS", schools |-> <<
         "wharton", "harvard", "stanford", "kellogg", "booth", "sloan", "columbia",
         "tuck">>],
    [category |-> "MEDICAL_LEADERS", schools |-> <<
         "harvard medical", "johns hopkins", "ucsf", "mayo clinic",
         "stanford medical">>],
    [category |-> "LAW_LEADERS", schools |-> <<
         "harvard law", "yale law", "stanford law", "columbia law", "nyu law",
         "chicago law">>]>>

elite_companies == <<
    [category |-> "TECH_STARTUP_ELITE", companies |-> <<
         "stripe", "scale ai", "databricks", "canva", "airbnb", "uber", "palantir",
         "snowflake", "mongodb", "twilio">>],
    [category |-> "TECH_ENTERPRISE_ELITE", companies |-> <<
         "google", "meta", "apple", "amazon", "microsoft", "netflix", "salesforce",
         "oracle", "sap", "adobe">>],
    [category |-> "BIG4_ACCOUNTING", companies |-> <<
         "kpmg", "deloitte", "ey", "pwc">>],
    [category |-> "ELITE_LAW_FIRMS", companies |-> <<
         "cravath", "skadden", "sullivan & cromwell", "wachtell", "davis polk",
         "simpson thacher">>],
    [category |-> "ELITE_HEALTHCARE", companies |-> <<
         "mayo clinic", "cleveland clinic", "johns hopkins",
         "massachusetts general", "ucsf medical center">>]>>


(* The category of the first (category, school) pair, in table iteration   *)
(* order, whose school name is contained in the text; "" when none is.     *)
FirstCategory(table, text) ==
    LET hits == {i \in 1..Len(table) : AnyIn(table[i].schools, text)}
    IN  IF hits = {} THEN ""
        ELSE table[CHOOSE i \in hits : \A j \in hits : i <= j].category

(* `"CS" in category` and the like, for the category names of the tables *)
CategoryHas(category, token) ==
    CASE token = "CS" -> category \in {"ENGINEERING_CS_ELITE", "CS_LEADERS"}
      [] token = "COMPUTER" -> FALSE
      [] token = "ENGINEERING" ->
            category \in {"ENGINEERING_CS_ELITE", "ENGINEERING_STRONG", "ENGINEERING_LEADERS"}
      [] token = "BUSINESS" -> category \in {"BUSINESS_ELITE", "BUSINESS_MBA_LEADERS"}
      [] token = "MBA" -> category = "BUSINESS_MBA_LEADERS"
      [] token = "MEDICAL" -> category \in {"MEDICAL_ELITE", "MEDICAL_LEADERS"}
      [] token = "LAW" -> category \in {"LAW_ELITE", "LAW_LEADERS"}

is_specialty_match(field, category) ==
    IF CategoryHas(category, "CS") \/ CategoryHas(category, "COMPUTER")
    THEN AnyIn(<<"computer", "software", "cs", "computing">>, field)
    ELSE IF CategoryHas(category, "ENGINEERING")
    THEN AnyIn(<<"engineering", "mechanical", "electrical", "civil", "chemical">>, field)
    ELSE IF CategoryHas(category, "BUSINESS") \/ CategoryHas(category, "MBA")
    THEN AnyIn(<<"business", "mba", "management", "finance", "economics">>, field)
    ELSE IF CategoryHas(category, "MEDICAL")
    THEN AnyIn(<<"medical", "medicine", "health", "nursing", "pharmacy">>, field)
    ELSE IF CategoryHas(category, "LAW")
    THEN AnyIn(<<"law", "legal", "juris", "jd">>, field)
    ELSE FALSE

IsGraduate(degree_type) == Contains(degree_type, "master") \/ Contains(degree_type, "phd")

(* The Tier 2 table consulted before the Tier 1 table *)
score_institution_tier2_first(institution, degree_type, field) ==
    LET t1 == FirstCategory(tier1_schools, institution)
        t2 == FirstCategory(tier2_schools, institution)
    IN  IF t2 # ""
        THEN LET b2 == IF field # {} /\ is_specialty_match(field, t2)
                       THEN RMin(Tenths(85), RAdd(Tenths(75), Tenths(5))) ELSE Tenths(75)
             IN  IF degree_type # {} /\ IsGraduate(degree_type)
                 THEN RMin(Tenths(85), RAdd(b2, Tenths(3))) ELSE b2
        ELSE IF t1 # ""
        THEN LET b1 == IF field # {} /\ is_specialty_match(field, t1)
                       THEN RMin(R(10, 1), RAdd(Tenths(95), Tenths(5))) ELSE Tenths(95)
             IN  IF degree_type # {} /\ IsGraduate(degree_type)
                 THEN RMin(R(10, 1), RAdd(b1, Tenths(3))) ELSE b1
        ELSE IF \E i \in 1..Len(specialty_programs) :
                   /\ AnyIn(specialty_programs[i].schools, institution)
                   /\ field # {}
                   /\ is_specialty_match(field, specialty_programs[i].category)
        THEN R(8, 1)
        ELSE IF Contains(institution, "university") \/ Contains(institution, "college")
        THEN IF degree_type # {} /\ IsGraduate(degree_type)
             THEN RMin(Tenths(65), RAdd(R(5, 1), Tenths(5))) ELSE R(5, 1)
        ELSE R(3, 1)

score_institution(institution, degree_type, field) ==
    LET t1 == FirstCategory(tier1_schools, institution)
        t2 == FirstCategory(tier2_schools, institution)
    IN  IF t1 # ""
        THEN LET b1 == IF field # {} /\ is_specialty_match(field, t1)
                       THEN RMin(R(10, 1), RAdd(Tenths(95), Tenths(5))) ELSE Tenths(95)
             IN  IF degree_type # {} /\ IsGraduate(degree_type)
                 THEN RMin(R(10, 1), RAdd(b1, Tenths(3))) ELSE b1
        ELSE IF t2 # ""
        THEN LET b2 == IF field # {} /\ is_specialty_match(field, t2)
                       THEN RMin(Tenths(85), RAdd(Tenths(75), Tenths(5))) ELSE Tenths(75)
             IN  IF degree_type # {} /\ IsGraduate(degree_type)
                 THEN RMin(Tenths(85), RAdd(b2, Tenths(3))) ELSE b2
        ELSE IF \E i \in 1..Len(specialty_programs) :
                   /\ AnyIn(specialty_programs[i].schools, institution)
                   /\ field # {}
                   /\ is_specialty_match(field, specialty_programs[i].category)
        THEN R(8, 1)
        ELSE IF Contains(institution, "university") \/ Contains(institution, "college")
        THEN IF degree_type # {} /\ IsGraduate(degree_type)
             THEN RMin(Tenths(65), RAdd(R(5, 1), Tenths(5))) ELSE R(5, 1)
        ELSE R(3, 1)

get_institution_tier(institution) ==
    LET t1 == FirstCategory(tier1_schools, institution)
        t2 == FirstCategory(tier2_schools, institution)
        sp == FirstCategory(specialty_programs, institution)
    IN  IF t1 # "" THEN <<"Tier 1", t1>>
        ELSE IF t2 # "" THEN <<"Tier 2", t2>>
        ELSE IF sp # "" THEN <<"Specialty", sp>>
        ELSE <<"Tier 3", "">>

(* One entry per regex match: the matches of the institution pattern       *)
(* first, then those of the degree pattern, whose first group (the degree  *)
(* keyword) lands in "institution" and whose second group (the field) in   *)
(* both "degree_type" and "field".                                         *)
extract_education_info(resume) ==
    [i \in 1..Len(resume.institutions) |->
        [institution |-> resume.institutions[i],
         degree_type |-> {"unknown"}, field |-> {"general"}]]
    \o
    [i \in 1..Len(resume.degrees) |->
        [institution |-> resume.degrees[i].keyword,
         degree_type |-> resume.degrees[i].field,
         field |-> resume.degrees[i].field]]

(* The average of no entries taken as 0.0 *)
evaluate_education_no_floor(resume) ==
    LET education_info == extract_education_info(resume)
        scores == [i \in 1..Len(education_info) |->
                     score_institution(education_info[i].institution,
                                       education_info[i].degree_type,
                                       education_info[i].field)]
        avg_score == IF education_info # <<>>
                     THEN RDiv(RSumSeq(scores), R(Len(education_info), 1))
                     ELSE R(0, 1)
        graduate_degrees == SelectSeq(education_info,
                                      LAMBDA edu : IsGraduate(edu.degree_type))
    IN  [score |-> IF graduate_degrees # <<>>
                   THEN RMin(R(10, 1), RAdd(avg_score, R(1, 1))) ELSE avg_score,
         concerns |-> IF education_info = <<>>
                      THEN <<"No education information found">> ELSE <<>>,
         strengths |-> IF graduate_degrees # <<>>
                       THEN <<"Graduate degree(s) present">> ELSE <<>>,
         institutions |-> [i \in 1..Len(education_info) |->
                             [score |-> scores[i],
                              tier |-> get_institution_tier(education_info[i].institution)]]]

evaluate_education(resume) ==
    LET education_info == extract_education_info(resume)
        scores == [i \in 1..Len(education_info) |->
                     score_institution(education_info[i].institution,
                                       education_info[i].degree_type,
                                       education_info[i].field)]
        avg_score == IF education_info # <<>>
                     THEN RDiv(RSumSeq(scores), R(Len(education_info), 1))
                     ELSE R(1, 1)
        graduate_degrees == SelectSeq(education_info,
                                      LAMBDA edu : IsGraduate(edu.degree_type))
    IN  [score |-> IF graduate_degrees # <<>>
                   THEN RMin(R(10, 1), RAdd(avg_score, R(1, 1))) ELSE avg_score,
         concerns |-> IF education_info = <<>>
                      THEN <<"No education information found">> ELSE <<>>,
         strengths |-> IF graduate_degrees # <<>>
                       THEN <<"Graduate degree(s) present">> ELSE <<>>,
         institutions |-> [i \in 1..Len(education_info) |->
                             [score |-> scores[i],
                              tier |-> get_institution_tier(education_info[i].institution)]]]

----------------------------------------------------------------------------
(* Work experience.  An entry is [title, company, duration, description];  *)
(* title, company and description are texts, duration is "Unknown" or the  *)
(* numbers the duration patterns find in the duration line (each a set of  *)
(* at most one number: the first match of that pattern).                   *)

extract_work_experience(resume) == resume.work

(* sort(key = x.get("end_date", "Present"), reverse = True): the entries   *)
(* carry no "end_date" field, every key is "Present", and the sort is      *)
(* stable, so the entries keep their order.                                *)
SortByEndDate(work_experience) == work_experience

The(S) == CHOOSE x \in S : TRUE

calculate_tenure_years(duration) ==
    IF duration.unknown THEN R(0, 1)
    ELSE IF duration.paren_years # {} THEN R(The(duration.paren_years), 1)
    ELSE IF duration.range # {} THEN R(The(duration.range), 1)
    ELSE IF duration.years # {} THEN R(The(duration.years), 1)
    ELSE IF duration.months # {} THEN R(The(duration.months), 12)
    ELSE IF duration.number # {} THEN R(The(duration.number), 1)
    ELSE R(1, 1)

score_job_title(title) ==
    IF AnyIn(<<"ceo", "cto", "cfo", "vp", "director">>, title) THEN R(9, 1)
    ELSE IF AnyIn(<<"senior", "lead", "principal">>, title) THEN R(7, 1)
    ELSE IF AnyIn(<<"manager", "supervisor">>, title) THEN R(6, 1)
    ELSE IF AnyIn(<<"engineer", "analyst", "developer">>, title) THEN R(5, 1)
    ELSE R(3, 1)

leadership_words == <<"manager", "director", "lead", "head", "chief", "vp", "cto", "ceo",
                      "principal", "staff">>
scope_words == <<"team", "budget", "revenue", "strategy", "architect",
                 "cross-functional", "stakeholder">>
ownership_words == <<"owned", "led", "managed", "responsible for", "delivered",
                     "launched", "improved">>
complexity_words == <<"scalable", "distributed", "microservices", "architecture",
                      "system design", "technical leadership">>

position_score(position) ==
    RSumSeq(<<score_job_title(position.title),
              IF AnyIn(leadership_words, position.title) THEN R(2, 1) ELSE R(0, 1),
              IF AnyIn(scope_words, position.description) THEN Tenths(15) ELSE R(0, 1),
              IF AnyIn(ownership_words, position.description) THEN R(1, 1) ELSE R(0, 1),
              IF AnyIn(complexity_words, position.description) THEN R(1, 1) ELSE R(0, 1)>>)

CountPositions(work_experience, words, part) ==
    Cardinality({i \in 1..Len(work_experience) :
                    AnyIn(words, IF part = "title" THEN work_experience[i].title
                                 ELSE work_experience[i].description)})

(* The upward rung asking only r0 > r1 *)
progression_score_two_step(position_scores, total_leadership, total_scope, total_ownership) ==
    IF Len(position_scores) >= 3
    THEN LET r0 == position_scores[1]
             r1 == position_scores[2]
             r2 == position_scores[3]
         IN  IF RGe(r0, R(9, 1)) /\ RGe(r1, R(8, 1))
                /\ total_leadership >= 2 /\ total_ownership >= 2 THEN Tenths(95)
             ELSE IF RLt(r1, r0) /\ RGe(r0, Tenths(75))
                     /\ total_leadership >= 1 THEN R(9, 1)
             ELSE IF RLt(r2, r0) /\ RGe(r0, R(7, 1)) /\ total_scope >= 1 THEN R(8, 1)
             ELSE IF RGe(r0, R(6, 1)) /\ total_ownership >= 1 THEN R(7, 1)
             ELSE IF RGe(r0, R(5, 1)) THEN R(6, 1)
             ELSE IF RGe(r0, R(4, 1)) THEN R(4, 1)
             ELSE R(1, 1)
    ELSE LET avg_position_score ==
                 RDiv(RSumSeq(position_scores), R(Len(position_scores), 1))
         IN  IF RGe(avg_position_score, R(8, 1)) THEN R(8, 1)
             ELSE IF RGe(avg_position_score, R(6, 1)) THEN R(6, 1)
             ELSE R(4, 1)

progression_score(position_scores, total_leadership, total_scope, total_ownership) ==
    IF Len(position_scores) >= 3
    THEN LET r0 == position_scores[1]
             r1 == position_scores[2]
             r2 == position_scores[3]
         IN  IF RGe(r0, R(9, 1)) /\ RGe(r1, R(8, 1))
                /\ total_leadership >= 2 /\ total_ownership >= 2 THEN Tenths(95)
             ELSE IF RLt(r1, r0) /\ RLt(r2, r1) /\ RGe(r0, Tenths(75))
                     /\ total_leadership >= 1 THEN R(9, 1)
             ELSE IF RLt(r2, r0) /\ RGe(r0, R(7, 1)) /\ total_scope >= 1 THEN R(8, 1)
             ELSE IF RGe(r0, R(6, 1)) /\ total_ownership >= 1 THEN R(7, 1)
             ELSE IF RGe(r0, R(5, 1)) THEN R(6, 1)
             ELSE IF RGe(r0, R(4, 1)) THEN R(4, 1)
             ELSE R(1, 1)
    ELSE LET avg_position_score ==
                 RDiv(RSumSeq(position_scores), R(Len(position_scores), 1))
         IN  IF RGe(avg_position_score, R(8, 1)) THEN R(8, 1)
             ELSE IF RGe(avg_position_score, R(6, 1)) THEN R(6, 1)
             ELSE R(4, 1)

evaluate_career_trajectory(resume) ==
    LET work_experience == SortByEndDate(extract_work_experience(resume))
        position_scores == [i \in 1..Len(work_experience) |->
                               position_score(work_experience[i])]
    IN  IF work_experience = <<>>
        THEN [score |-> R(1, 1), error |-> "No work experience found"]
        ELSE [score |-> progression_score(position_scores,
                            CountPositions(work_experience, leadership_words, "title"),
                            CountPositions(work_experience, scope_words, "description"),
                            CountPositions(work_experience, ownership_words, "description")),
              error |-> ""]

----------------------------------------------------------------------------
(* Company relevance *)

detect_role_type(job_description) ==
    IF AnyIn(<<"software", "engineer", "developer", "programmer">>, job_description)
    THEN "technical"
    ELSE IF AnyIn(<<"manager", "director", "lead">>, job_description) THEN "management"
    ELSE IF AnyIn(<<"sales", "account", "business">>, job_description) THEN "sales"
    ELSE IF AnyIn(<<"legal", "attorney", "law">>, job_description) THEN "legal"
    ELSE IF AnyIn(<<"accounting", "cpa", "audit">>, job_description) THEN "accounting"
    ELSE IF AnyIn(<<"healthcare", "medical", "nurse">>, job_description) THEN "healthcare"
    ELSE "general"

detect_company_type(job_description) ==
    IF AnyIn(<<"startup", "seed", "series", "early-stage">>, job_description) THEN "startup"
    ELSE IF AnyIn(<<"enterprise", "fortune", "large company">>, job_description)
    THEN "enterprise"
    ELSE IF AnyIn(<<"law firm", "legal">>, job_description) THEN "law_firm"
    ELSE IF AnyIn(<<"accounting", "cpa">>, job_description) THEN "accounting"
    ELSE IF AnyIn(<<"healthcare", "hospital">>, job_description) THEN "healthcare"
    ELSE "general"

EliteList(category) ==
    elite_companies[CHOOSE i \in 1..Len(elite_companies) :
                        elite_companies[i].category = category].companies

score_company_relevance(company, role_type, company_type) ==
    LET elite ==
            IF role_type = "technical"
            THEN IF company_type = "startup" THEN EliteList("TECH_STARTUP_ELITE")
                 ELSE IF company_type = "enterprise" THEN EliteList("TECH_ENTERPRISE_ELITE")
                 ELSE <<>>
            ELSE IF role_type = "accounting" THEN EliteList("BIG4_ACCOUNTING")
            ELSE IF role_type = "legal" THEN EliteList("ELITE_LAW_FIRMS")
            ELSE IF role_type = "healthcare" THEN EliteList("ELITE_HEALTHCARE")
            ELSE <<>>
    IN  IF AnyIn(elite, company) THEN R(9, 1) ELSE R(5, 1)

(* The average taken over max(1, positions), without the no-work return *)
evaluate_company_relevance_unguarded(resume, job_description) ==
    LET work_experience == extract_work_experience(resume)
        role_type == detect_role_type(job_description)
        company_type == detect_company_type(job_description)
        scores == [i \in 1..Len(work_experience) |->
                      score_company_relevance(work_experience[i].company,
                                              role_type, company_type)]
        count == IF work_experience = <<>> THEN 1 ELSE Len(work_experience)
    IN  [score |-> RDiv(RSumSeq(scores), R(count, 1)), error |-> ""]

evaluate_company_relevance(resume, job_description) ==
    LET work_experience == extract_work_experience(resume)
        role_type == detect_role_type(job_description)
        company_type == detect_company_type(job_description)
        scores == [i \in 1..Len(work_experience) |->
                      score_company_relevance(work_experience[i].company,
                                              role_type, company_type)]
    IN  IF work_experience = <<>>
        THEN [score |-> R(1, 1), error |-> "No work experience found"]
        ELSE [score |-> RDiv(RSumSeq(scores), R(Len(work_experience), 1)), error |-> ""]

----------------------------------------------------------------------------
(* Tenure stability *)

excluded_words == <<"intern", "internship", "co-op", "coop", "part-time", "parttime">>

(* Only the two internship words looked for *)
IsExcluded_internships(position) == AnyIn(<<"intern", "internship">>, position.title)

IsExcluded(position) == AnyIn(excluded_words, position.title)

IsElite(company) ==
    \E i \in 1..Len(elite_companies) : AnyIn(elite_companies[i].companies, company)

(* The top band entered above 3.0 years only *)
tenure_ladder_strict(avg_tenure) ==
    IF RLt(R(3, 1), avg_tenure) THEN Tenths(95)
    ELSE IF RGe(avg_tenure, Tenths(25)) THEN Tenths(85)
    ELSE IF RGe(avg_tenure, R(2, 1)) THEN Tenths(75)
    ELSE IF RGe(avg_tenure, Tenths(15)) THEN Tenths(65)
    ELSE IF RGe(avg_tenure, R(1, 1)) THEN Tenths(55)
    ELSE IF RGe(avg_tenure, Tenths(5)) THEN R(4, 1)
    ELSE R(1, 1)

tenure_ladder(avg_tenure) ==
    IF RGe(avg_tenure, R(3, 1)) THEN Tenths(95)
    ELSE IF RGe(avg_tenure, Tenths(25)) THEN Tenths(85)
    ELSE IF RGe(avg_tenure, R(2, 1)) THEN Tenths(75)
    ELSE IF RGe(avg_tenure, Tenths(15)) THEN Tenths(65)
    ELSE IF RGe(avg_tenure, R(1, 1)) THEN Tenths(55)
    ELSE IF RGe(avg_tenure, Tenths(5)) THEN R(4, 1)
    ELSE R(1, 1)

evaluate_tenure_stability(resume) ==
    LET work_experience == extract_work_experience(resume)
        excluded_positions == SelectSeq(work_experience, IsExcluded)
        internship_count == Len(excluded_positions)
        counted == SelectSeq(work_experience,
                       LAMBDA p : /\ ~IsExcluded(p)
                                  /\ RLt(R(0, 1), calculate_tenure_years(p.duration)))
        years == [i \in 1..Len(counted) |-> calculate_tenure_years(counted[i].duration)]
        total_tenure == RSumSeq(years)
        valid_positions == Len(counted)
        elite_company_tenure ==
            RSumSeq([i \in 1..Len(counted) |->
                        IF IsElite(counted[i].company) THEN years[i] ELSE R(0, 1)])
    IN  IF work_experience = <<>>
        THEN [score |-> R(1, 1), error |-> "No work experience found",
              average_tenure |-> R(0, 1), excluded_positions |-> <<>>]
        ELSE IF valid_positions = 0
        THEN [score |-> R(1, 1), error |-> "No valid full-time positions found",
              average_tenure |-> R(0, 1), excluded_positions |-> <<>>]
        ELSE LET avg_tenure == RDiv(total_tenure, R(valid_positions, 1))
                 base == tenure_ladder(avg_tenure)
                 with_elite ==
                     IF RLt(R(0, 1), elite_company_tenure)
                     THEN RMin(R(10, 1),
                               RAdd(base, RMin(Tenths(5),
                                               RMul(elite_company_tenure, Tenths(1)))))
                     ELSE base
                 stability_score ==
                     IF internship_count >= 3
                     THEN RMin(R(10, 1), RAdd(with_elite, Tenths(3))) ELSE with_elite
             IN  [score |-> stability_score, error |-> "",
                  average_tenure |-> avg_tenure,
                  excluded_positions |-> excluded_positions]

----------------------------------------------------------------------------
(* Recommendations *)

SUBMIT_LINE == "SUBMITTABLE CANDIDATE - Recommend to submit"
REJECT_LINE == "RECOMMENDED REJECT - Below elite hiring bar"
EDUCATION_LINE == "Education concerns - consider program strength and relevance"
CAREER_LINE == "Career trajectory concerns - limited progression visible"
COMPANY_LINE == "Company relevance concerns - may not fit target environment"
TENURE_LINE == "Tenure stability concerns - frequent job changes"
SKILLS_LINE == "Skills gap - missing critical capabilities"
RED_FLAG_LINE == "Red flags detected - requires careful review"

SubmitThreshold == Tenths(82)
ConcernThreshold == R(6, 1)

Line(cond, text) == IF cond THEN <<text>> ELSE <<>>

IsSubmittable(total_score) == RGe(total_score, SubmitThreshold)

(* A primary line decided by > instead of >= *)
generate_recommendations_strict(final_score, education_score, career_score, company_score, tenure_score, skills_score, bonus_score, red_flags_penalty) ==
    (IF RLt(SubmitThreshold, final_score) THEN <<SUBMIT_LINE>> ELSE <<REJECT_LINE>>)
    \o Line(RLt(education_score, ConcernThreshold), EDUCATION_LINE)
    \o Line(RLt(career_score, ConcernThreshold), CAREER_LINE)
    \o Line(RLt(company_score, ConcernThreshold), COMPANY_LINE)
    \o Line(RLt(tenure_score, ConcernThreshold), TENURE_LINE)
    \o Line(RLt(skills_score, ConcernThreshold), SKILLS_LINE)
    \o Line(RLt(red_flags_penalty, R(-5, 1)), RED_FLAG_LINE)

(* Concern lines decided by <= instead of < *)
generate_recommendations_inclusive(final_score, education_score, career_score, company_score, tenure_score, skills_score, bonus_score, red_flags_penalty) ==
    (IF RGe(final_score, SubmitThreshold) THEN <<SUBMIT_LINE>> ELSE <<REJECT_LINE>>)
    \o Line(RLe(education_score, ConcernThreshold), EDUCATION_LINE)
    \o Line(RLe(career_score, ConcernThreshold), CAREER_LINE)
    \o Line(RLe(company_score, ConcernThreshold), COMPANY_LINE)
    \o Line(RLe(tenure_score, ConcernThreshold), TENURE_LINE)
    \o Line(RLe(skills_score, ConcernThreshold), SKILLS_LINE)
    \o Line(RLe(red_flags_penalty, R(-5, 1)), RED_FLAG_LINE)

generate_recommendations(final_score, education_score, career_score, company_score, tenure_score, skills_score, bonus_score, red_flags_penalty) ==
    (IF RGe(final_score, SubmitThreshold) THEN <<SUBMIT_LINE>> ELSE <<REJECT_LINE>>)
    \o Line(RLt(education_score, ConcernThreshold), EDUCATION_LINE)
    \o Line(RLt(career_score, ConcernThreshold), CAREER_LINE)
    \o Line(RLt(company_score, ConcernThreshold), COMPANY_LINE)
    \o Line(RLt(tenure_score, ConcernThreshold), TENURE_LINE)
    \o Line(RLt(skills_score, ConcernThreshold), SKILLS_LINE)
    \o Line(RLt(red_flags_penalty, R(-5, 1)), RED_FLAG_LINE)

----------------------------------------------------------------------------
(* The Insight Service steps and their local fallbacks.  An Insight        *)
(* response is "fail" (the call raises: timeout, network error, content    *)
(* that is not JSON) or "ok" (parsed JSON, returned as it is).             *)

detect_context_fallback(job_description) ==
    [source |-> "fallback",
     industry |->
        IF AnyIn(<<"software", "engineer", "developer", "tech">>, job_description)
        THEN "tech"
        ELSE IF AnyIn(<<"healthcare", "medical", "hospital", "clinic">>, job_description)
        THEN "healthcare"
        ELSE IF AnyIn(<<"law", "legal", "attorney", "lawyer">>, job_description) THEN "law"
        ELSE IF AnyIn(<<"accounting", "cpa", "audit", "finance">>, job_description)
        THEN "finance"
        ELSE "general",
     company_type |->
        IF AnyIn(<<"startup", "seed", "series", "early-stage">>, job_description)
        THEN "startup"
        ELSE IF AnyIn(<<"enterprise", "fortune", "large company">>, job_description)
        THEN "enterprise"
        ELSE IF AnyIn(<<"law firm", "llp", "amlaw">>, job_description) THEN "law_firm"
        ELSE IF AnyIn(<<"accounting firm", "big 4">>, job_description) THEN "accounting"
        ELSE IF AnyIn(<<"hospital", "healthcare system">>, job_description)
        THEN "healthcare"
        ELSE "general",
     role_type |-> detect_role_type(job_description)]

FromInsight == [source |-> "insight", industry |-> "?", company_type |-> "?",
                role_type |-> "?"]

detect_context_with_gpt4(self, job_description, response) ==
    IF ~self.client \/ response = "fail" THEN detect_context_fallback(job_description)
    ELSE FromInsight

generate_smart_criteria_fallback == "fallback criteria"

generate_smart_criteria_with_gpt4(self, response) ==
    IF ~self.client \/ response = "fail" THEN generate_smart_criteria_fallback
    ELSE "insight criteria"

extract_skills_fallback(resume_text, job_description) ==
    [source |-> "fallback",
     candidate_skills |-> extract_skills(resume_text),
     required_skills |-> extract_skills(job_description)]

extract_skills_with_gpt4(self, resume_text, job_description, response) ==
    IF ~self.client \/ response = "fail"
    THEN extract_skills_fallback(resume_text, job_description)
    ELSE [source |-> "insight", candidate_skills |-> <<>>, required_skills |-> <<>>]

evaluate_against_smart_criteria_fallback == "fallback evaluation"

evaluate_against_smart_criteria_with_gpt4(self, response) ==
    IF ~self.client \/ response = "fail" THEN evaluate_against_smart_criteria_fallback
    ELSE "insight evaluation"

(* The weight response is [kind, val]: kind "fail", "dict" (val is the     *)
(* parsed object) or "notdict" (JSON that is no object: it has no          *)
(* pop(key, default)).                                                     *)
(* The weight step without its except clause: a failed call propagates *)
adjust_weights_dynamically_unguarded(self, response) ==
    IF ~self.client
    THEN adjust_weights_for_collateral([ref |-> "default", val |-> self.default_weights], {})
    ELSE IF response.kind = "fail" THEN Raised("Exception")
    ELSE NoExc("fresh", response.val)

adjust_weights_dynamically_with_gpt4(self, response) ==
    IF ~self.client \/ response.kind = "fail"
    THEN adjust_weights_for_collateral([ref |-> "default", val |-> self.default_weights], {})
    ELSE NoExc("fresh", response.val)

(* weights.pop('reasoning', None) *)
PopReasoning(o, response) ==
    IF o.exc # "none" THEN o
    ELSE IF response.kind = "notdict" THEN Raised("AttributeError")
    ELSE NoExc(o.ref, [k \in (DOMAIN o.val) \ {"reasoning"} |-> o.val[k]])

(* Step 3 *)
ResolveWeights(self, collateral, company_weights, gpt, response) ==
    IF gpt
    THEN PopReasoning(adjust_weights_dynamically_with_gpt4(self, response), response)
    ELSE LET weights == IF company_weights # EmptyDict
                        THEN [ref |-> "company", val |-> company_weights]
                        ELSE [ref |-> "default", val |-> self.default_weights]
         IN  IF collateral # {}
             THEN adjust_weights_for_collateral(weights, collateral)
             ELSE NoExc(weights.ref, weights.val)

(* Step 7: the six products in source order, then the penalty unweighted *)
RECURSIVE WeightedSum(_, _, _)
WeightedSum(scores, w, i) ==
    IF i > Len(FactorKeys) THEN [exc |-> "none", val |-> R(0, 1)]
    ELSE IF FactorKeys[i] \notin DOMAIN w THEN [exc |-> "KeyError", val |-> R(0, 1)]
    ELSE IF ~IsNum(w[FactorKeys[i]]) THEN [exc |-> "TypeError", val |-> R(0, 1)]
    ELSE LET rest == WeightedSum(scores, w, i + 1)
         IN  [exc |-> rest.exc,
              val |-> RAdd(RMul(scores[FactorKeys[i]], w[FactorKeys[i]]), rest.val)]

(* The penalty weighted like a seventh factor *)
final_score_weighted_penalty(scores, w, red_flags_penalty) ==
    LET sum == WeightedSum(scores, w, 1)
        weighted == IF "red_flags" \in DOMAIN w /\ IsNum(w["red_flags"])
                    THEN RMul(red_flags_penalty, w["red_flags"])
                    ELSE red_flags_penalty
    IN  [exc |-> sum.exc, val |-> RAdd(sum.val, weighted)]

final_score(scores, w, red_flags_penalty) ==
    LET sum == WeightedSum(scores, w, 1)
    IN  [exc |-> sum.exc, val |-> RAdd(sum.val, red_flags_penalty)]

----------------------------------------------------------------------------
(* calculate_fitscore.  A resume is the facts its text holds:              *)
(* institutions (matches of the institution pattern), degrees (matches of  *)
(* the degree pattern), work (the title blocks) and extra (the other       *)
(* keywords of the text).                                                  *)

(* Known keywords that are substrings of another known keyword *)
Substrings(atom) ==
    CASE atom = "google" -> {"go"}
      [] atom = "mongodb" -> {"go"}
      [] atom = "javascript" -> {"java"}
      [] atom = "internship" -> {"intern"}
      [] atom = "technical leadership" -> {"leadership"}
      [] atom = "missing certification" -> {"certification"}
      [] atom = "virginia tech" -> {"virginia"}
      [] atom = "nyu law" -> {"nyu"}
      [] atom = "harvard law" -> {"harvard"}
      [] OTHER -> {}

Closure(text) == text \cup UNION {Substrings(a) : a \in text}

ResumeText(resume) ==
    Closure(resume.extra
            \cup UNION {resume.institutions[i] : i \in 1..Len(resume.institutions)}
            \cup UNION {resume.degrees[i].keyword \cup resume.degrees[i].field :
                           i \in 1..Len(resume.degrees)}
            \cup UNION {resume.work[i].title \cup resume.work[i].company
                           \cup resume.work[i].description : i \in 1..Len(resume.work)})

Scores(resume, job_description) ==
    LET resume_text == ResumeText(resume)
        education == evaluate_education(resume)
        career == evaluate_career_trajectory(resume)
        company == evaluate_company_relevance(resume, job_description)
        tenure == evaluate_tenure_stability(resume)
        skills == evaluate_most_important_skills(resume_text, job_description)
    IN  [score |-> [education |-> education.score,
                    career_trajectory |-> career.score,
                    company_relevance |-> company.score,
                    tenure_stability |-> tenure.score,
                    most_important_skills |-> skills.score,
                    bonus_signals |-> evaluate_bonus_signals(resume_text)],
         red_flags_penalty |-> evaluate_red_flags(resume_text),
         details |-> [education |-> education, career_trajectory |-> career,
                      company_relevance |-> company, tenure_stability |-> tenure,
                      most_important_skills |-> skills]]

(* The outcome of one call: result (the FitScoreResult, or the exception   *)
(* that left the call), calls (the Insight steps that called the service,  *)
(* in order), and the content of the two long-lived weight objects after   *)
(* the call.  sc is Scores(resume, job_description), the seven scorer      *)
(* results of Step 6: the actions compute it once per resume and job       *)
(* description and pass it in.                                             *)
(* The Skills Match score taken from the Insight skills analysis when it answers *)
calculate_fitscore_enhanced(self, resume, job_description, collateral, company_weights, use_gpt4, insight, sc) ==
    LET gpt == use_gpt4 /\ self.client
        context == IF gpt
                   THEN detect_context_with_gpt4(self, job_description, insight.context)
                   ELSE detect_context_fallback(job_description)
        smart_criteria == IF gpt
                          THEN generate_smart_criteria_with_gpt4(self, insight.criteria)
                          ELSE generate_smart_criteria_fallback
        weights == ResolveWeights(self, collateral, company_weights, gpt, insight.weights)
        skills_analysis ==
            IF gpt
            THEN extract_skills_with_gpt4(self, ResumeText(resume), job_description,
                                          insight.skills)
            ELSE extract_skills_fallback(ResumeText(resume), job_description)
        elite_evaluation ==
            IF gpt THEN evaluate_against_smart_criteria_with_gpt4(self, insight.elite)
            ELSE evaluate_against_smart_criteria_fallback
        total == final_score(sc.score, weights.val, sc.red_flags_penalty)
        exc == IF weights.exc # "none" THEN weights.exc ELSE total.exc
    IN  [result |->
            IF exc # "none" THEN [status |-> "raised", exc |-> exc]
            ELSE [status |-> "ok",
                  total_score |-> total.val,
                  score |-> IF gpt /\ skills_analysis.source = "insight"
                            THEN [sc.score EXCEPT !.most_important_skills = R(9, 1)]
                            ELSE sc.score,
                  red_flags_penalty |-> sc.red_flags_penalty,
                  details |-> [scorers |-> sc.details,
                               weights_used |-> weights.val,
                               weights_ref |-> weights.ref,
                               context_detection |-> context,
                               smart_criteria |-> smart_criteria,
                               skills_analysis |-> skills_analysis,
                               elite_evaluation |-> elite_evaluation,
                               gpt4_enhanced |-> gpt],
                  recommendations |->
                      generate_recommendations(total.val, sc.score.education,
                          sc.score.career_trajectory, sc.score.company_relevance,
                          sc.score.tenure_stability, sc.score.most_important_skills,
                          sc.score.bonus_signals, sc.red_flags_penalty)],
         calls |-> IF ~gpt THEN <<>>
                   ELSE IF weights.exc # "none" THEN <<"context", "criteria", "weights">>
                   ELSE <<"context", "criteria", "weights", "skills", "elite">>,
         default_weights |-> IF weights.exc = "none" /\ weights.ref = "default"
                             THEN weights.val ELSE self.default_weights,
         company_weights |-> IF weights.exc = "none" /\ weights.ref = "company"
                             THEN weights.val ELSE company_weights]

calculate_fitscore(self, resume, job_description, collateral, company_weights, use_gpt4, insight, sc) ==
    LET gpt == use_gpt4 /\ self.client
        context == IF gpt
                   THEN detect_context_with_gpt4(self, job_description, insight.context)
                   ELSE detect_context_fallback(job_description)
        smart_criteria == IF gpt
                          THEN generate_smart_criteria_with_gpt4(self, insight.criteria)
                          ELSE generate_smart_criteria_fallback
        weights == ResolveWeights(self, collateral, company_weights, gpt, insight.weights)
        skills_analysis ==
            IF gpt
            THEN extract_skills_with_gpt4(self, ResumeText(resume), job_description,
                                          insight.skills)
            ELSE extract_skills_fallback(ResumeText(resume), job_description)
        elite_evaluation ==
            IF gpt THEN evaluate_against_smart_criteria_with_gpt4(self, insight.elite)
            ELSE evaluate_against_smart_criteria_fallback
        total == final_score(sc.score, weights.val, sc.red_flags_penalty)
        exc == IF weights.exc # "none" THEN weights.exc ELSE total.exc
    IN  [result |->
            IF exc # "none" THEN [status |-> "raised", exc |-> exc]
            ELSE [status |-> "ok",
                  total_score |-> total.val,
                  score |-> sc.score,
                  red_flags_penalty |-> sc.red_flags_penalty,
                  details |-> [scorers |-> sc.details,
                               weights_used |-> weights.val,
                               weights_ref |-> weights.ref,
                               context_detection |-> context,
                               smart_criteria |-> smart_criteria,
                               skills_analysis |-> skills_analysis,
                               elite_evaluation |-> elite_evaluation,
                               gpt4_enhanced |-> gpt],
                  recommendations |->
                      generate_recommendations(total.val, sc.score.education,
                          sc.score.career_trajectory, sc.score.company_relevance,
                          sc.score.tenure_stability, sc.score.most_important_skills,
                          sc.score.bonus_signals, sc.red_flags_penalty)],
         calls |-> IF ~gpt THEN <<>>
                   ELSE IF weights.exc # "none" THEN <<"context", "criteria", "weights">>
                   ELSE <<"context", "criteria", "weights", "skills", "elite">>,
         default_weights |-> IF weights.exc = "none" /\ weights.ref = "default"
                             THEN weights.val ELSE self.default_weights,
         company_weights |-> IF weights.exc = "none" /\ weights.ref = "company"
                             THEN weights.val ELSE company_weights]

(* FitScoreCalculator.__init__: a client exists when a key is passed or    *)
(* the OPENAI_API_KEY environment variable is set.                         *)
NewCalculator(openai_api_key, environ_key) ==
    [client |-> openai_api_key \/ environ_key, default_weights |-> default_weights]

to_dict(result) ==
    [total_score |-> result.total_score,
     score |-> result.score,
     red_flags_penalty |-> result.red_flags_penalty,
     details |-> result.details,
     recommendations |-> result.recommendations,
     submittable |-> IsSubmittable(result.total_score)]

(* round(x, 2) of the form endpoint: to the nearest hundredth, ties to even *)
Round2(x) ==
    LET q == (x[1] * 100) \div x[2]
        rem == x[1] * 100 - q * x[2]
    IN  IF 2 * rem > x[2] THEN R(q + 1, 100)
        ELSE IF 2 * rem < x[2] THEN R(q, 100)
        ELSE IF q % 2 = 0 THEN R(q, 100) ELSE R(q + 1, 100)

----------------------------------------------------------------------------
(* Inputs *)

MaxPositions == 3

Vector(e, c, co, t, s, b, rf) ==
    [k \in {WeightKeys[i] : i \in 1..7} |->
        CASE k = "education" -> Dec(e)
          [] k = "career_trajectory" -> Dec(c)
          [] k = "company_relevance" -> Dec(co)
          [] k = "tenure_stability" -> Dec(t)
          [] k = "most_important_skills" -> Dec(s)
          [] k = "bonus_signals" -> Dec(b)
          [] k = "red_flags" -> Dec(rf)]

Without(w, key) == [k \in (DOMAIN w) \ {key} |-> w[k]]

With(w, key, v) == [k \in (DOMAIN w) \cup {key} |-> IF k = key THEN v ELSE w[k]]

TenureHeavy == Vector(0, 0, 0, 82, 0, 18, -15)
Oversized == Vector(50, 50, 50, 50, 50, 50, -15)
MissingKey == Without(TenureHeavy, "bonus_signals")
NonNumeric == With(TenureHeavy, "education", NotANumber)

(* company_weights: None (or {}) is the empty dict *)
CompanyWeights == {EmptyDict, TenureHeavy, Oversized, MissingKey, NonNumeric}

WeightResponses ==
    {[kind |-> "fail", val |-> EmptyDict],
     [kind |-> "notdict", val |-> EmptyDict],
     [kind |-> "dict", val |-> With(TenureHeavy, "reasoning", NotANumber)],
     [kind |-> "dict", val |-> With(Oversized, "reasoning", NotANumber)],
     [kind |-> "dict", val |-> MissingKey],
     [kind |-> "dict", val |-> NonNumeric]}

StepResponses == {"fail", "ok"}

NoInsight == [context |-> "fail", criteria |-> "fail", skills |-> "fail",
              elite |-> "fail", weights |-> [kind |-> "fail", val |-> EmptyDict]]

(* The responses of one evaluation's five calls: every pattern of failing  *)
(* steps with a failing weight call, and every weight response with the    *)
(* other four calls all failing or all answered.                           *)
InsightResponses ==
    {s \in [context : StepResponses, criteria : StepResponses, skills : StepResponses,
            elite : StepResponses, weights : WeightResponses] :
        \/ s.weights.kind = "fail"
        \/ /\ s.context = s.criteria
           /\ s.criteria = s.skills
           /\ s.skills = s.elite}

(* collateral: None (or "") is the empty text *)
Collaterals == {{}, {"other"}, {"startup"}, {"management"}}

Duration(py, rng, mo) ==
    [unknown |-> FALSE, paren_years |-> py, range |-> rng, years |-> py,
     months |-> mo, number |-> {}]

UnknownDuration ==
    [unknown |-> TRUE, paren_years |-> {}, range |-> {}, years |-> {},
     months |-> {}, number |-> {}]

(* "Director of Engineering / Google Inc. / 2015-2020 (5 years) / - Led a team" etc. *)
Career == <<
    [title |-> {"director", "engineer"}, company |-> {"google", "inc"},
     duration |-> Duration({5}, {5}, {}), description |-> {"led", "team"}],
    [title |-> {"senior", "engineer"}, company |-> {"stripe", "inc"},
     duration |-> Duration({}, {2}, {}), description |-> {"owned"}],
    [title |-> {"engineer", "intern"}, company |-> {},
     duration |-> Duration({}, {}, {6}), description |-> {}],
    [title |-> {"analyst"}, company |-> {},
     duration |-> UnknownDuration, description |-> {}]>>

WorkLists == {[i \in 1..n |-> Career[((i - 1) % Len(Career)) + 1]] : n \in 0..MaxPositions}

Plain(work) == [institutions |-> <<>>, degrees |-> <<>>, work |-> work, extra |-> {}]

Rich(work) ==
    [institutions |-> <<{"stanford", "university"}>>,
     degrees |-> <<[keyword |-> {"master"}, field |-> {"computer"}]>>,
     work |-> work, extra |-> {"python", "react", "plagiarized", "job hopping"}]

Resumes ==
    {Plain(w) : w \in WorkLists}
    \cup {Rich(w) : w \in {v \in WorkLists : Len(v) \in {0, MaxPositions}}}

JobDescriptions == {{}, {"software", "engineer", "startup", "python", "react"}}

----------------------------------------------------------------------------
(* The service: the module-level calculator of main.py, the process        *)
(* environment, and the request being answered.                            *)

(* Step 6 for every resume and job description of the input sets *)
ScoreTable ==
    [resume \in Resumes, job_description \in JobDescriptions |->
        Scores(resume, job_description)]

----------------------------------------------------------------------------
VARIABLES environ_key, boot_key, calculator, last

vars == <<environ_key, boot_key, calculator, last>>

Idle == [kind |-> "none"]

Init ==
    /\ environ_key \in BOOLEAN
    /\ boot_key = environ_key
    /\ calculator = NewCalculator(FALSE, environ_key)
    /\ last = Idle

InsightFor(self, use_gpt4) ==
    IF use_gpt4 /\ self.client THEN InsightResponses ELSE {NoInsight}

(* The two lines both endpoints start with: a supplied key is written to   *)
(* the environment and the module-level calculator is replaced.            *)
Reinitialize(openai_api_key) ==
    IF openai_api_key THEN NewCalculator(TRUE, TRUE) ELSE calculator

Handle(kind, self, request, use_gpt4, insight, out) ==
    /\ environ_key' = (environ_key \/ request.openai_api_key)
    /\ calculator' = [self EXCEPT !.default_weights = out.default_weights]
    /\ last' = [kind |-> kind, request |-> request, insight |-> insight,
                consulted |-> use_gpt4 /\ self.client,
                result |-> out.result, calls |-> out.calls,
                company_weights_after |-> out.company_weights,
                response |->
                    IF out.result.status = "raised"
                    THEN [status |-> IF kind = "json" THEN "500" ELSE "error"]
                    ELSE [status |-> "ok",
                          total_score |-> IF kind = "form"
                                          THEN Round2(out.result.total_score)
                                          ELSE out.result.total_score,
                          submittable |-> IF kind = "lib"
                                          THEN to_dict(out.result).submittable
                                          ELSE RGe(out.result.total_score, SubmitThreshold),
                          recommendations |-> out.result.recommendations]]
    /\ UNCHANGED boot_key

(* POST /calculate-fitscore *)
ApiCalculateFitscore ==
    /\ last = Idle
    /\ \E resume \in Resumes, job_description \in JobDescriptions :
        LET sc == ScoreTable[resume, job_description]
        IN  \E collateral \in Collaterals, openai_api_key \in BOOLEAN, use_gpt4 \in BOOLEAN :
            LET self == Reinitialize(openai_api_key)
            IN  \E insight \in InsightFor(self, use_gpt4) :
                Handle("json", self,
                       [resume |-> resume, job_description |-> job_description,
                        collateral |-> collateral, company_weights |-> EmptyDict,
                        openai_api_key |-> openai_api_key, use_gpt4 |-> use_gpt4],
                       use_gpt4, insight,
                       calculate_fitscore(self, resume, job_description, collateral,
                                          EmptyDict, use_gpt4, insight, sc))

(* POST /calculate-fitscore-form: use_gpt4 is the checkbox string *)
ApiCalculateFitscoreForm ==
    /\ last = Idle
    /\ \E resume \in Resumes, job_description \in JobDescriptions :
        LET sc == ScoreTable[resume, job_description]
        IN  \E collateral \in Collaterals, openai_api_key \in BOOLEAN,
               use_gpt4 \in {"on", "true"} :
            LET self == Reinitialize(openai_api_key)
                use_gpt4_bool == (use_gpt4 = "on")
            IN  \E insight \in InsightFor(self, use_gpt4_bool) :
                Handle("form", self,
                       [resume |-> resume, job_description |-> job_description,
                        collateral |-> collateral, company_weights |-> EmptyDict,
                        openai_api_key |-> openai_api_key, use_gpt4 |-> use_gpt4_bool],
                       use_gpt4_bool, insight,
                       calculate_fitscore(self, resume, job_description, collateral,
                                          EmptyDict, use_gpt4_bool, insight, sc))

(* A direct call of calculator.calculate_fitscore, then to_dict *)
LibraryCall ==
    /\ last = Idle
    /\ \E resume \in Resumes, job_description \in JobDescriptions :
        LET sc == ScoreTable[resume, job_description]
        IN  \E collateral \in Collaterals, company_weights \in CompanyWeights,
               use_gpt4 \in BOOLEAN :
            \E insight \in InsightFor(calculator, use_gpt4) :
            Handle("lib", calculator,
                   [resume |-> resume, job_description |-> job_description,
                    collateral |-> collateral, company_weights |-> company_weights,
                    openai_api_key |-> FALSE, use_gpt4 |-> use_gpt4],
                   use_gpt4, insight,
                   calculate_fitscore(calculator, resume, job_description, collateral,
                                      company_weights, use_gpt4, insight, sc))

(* The response has been returned; the next request can be taken *)
Deliver ==
    /\ last # Idle
    /\ last' = Idle
    /\ UNCHANGED <<environ_key, boot_key, calculator>>

Next == ApiCalculateFitscore \/ ApiCalculateFitscoreForm \/ LibraryCall \/ Deliver

Spec == Init /\ [][Next]_vars

----------------------------------------------------------------------------
(* Properties *)

Done == last.kind # "none"

Ok == Done /\ last.result.status = "ok"

Req == last.request

(* |x - 1| <= 1e-6 *)
NearOne(x) == Abs(x[1] - x[2]) * 1000000 <= x[2]

HasFactorKeys(w) == \A i \in 1..Len(FactorKeys) : FactorKeys[i] \in DOMAIN w

Malformed(w) ==
    \/ ~HasFactorKeys(w)
    \/ \E i \in 1..Len(FactorKeys) : ~IsNum(w[FactorKeys[i]])
    \/ ~NearOne(SixSum(w))

AllFail(insight) ==
    /\ insight.context = "fail" /\ insight.criteria = "fail" /\ insight.skills = "fail"
    /\ insight.elite = "fail" /\ insight.weights.kind = "fail"

(* The same call made with use_gpt4 false on a calculator as constructed *)
LocalReference(request) ==
    calculate_fitscore(NewCalculator(FALSE, FALSE), request.resume,
                       request.job_description, request.collateral,
                       request.company_weights, FALSE, NoInsight,
                       ScoreTable[request.resume, request.job_description]).result

(* C1: on the local path (Insight not consulted) with no company_weights,  *)
(* the six non-penalty weights handed to the aggregator sum to 1.0 within  *)
(* 1e-6, with or without collateral.                                       *)
C1_LocalWeightsSumToOne ==
    (Ok /\ ~last.consulted /\ Req.company_weights = EmptyDict)
        => NearOne(SixSum(last.result.details.weights_used))

(* C2: from the defaults, a "startup" collateral returns skills and        *)
(* company relevance 0.05 above, education and tenure 0.05 below the       *)
(* defaults, and six positive weights that sum to 1.0.                     *)
C2_StartupShift ==
    (Ok /\ ~last.consulted /\ Req.company_weights = EmptyDict
        /\ Contains(Req.collateral, "startup"))
        => LET w == last.result.details.weights_used
           IN  /\ w["most_important_skills"] = RAdd(default_weights["most_important_skills"], Dec(5))
               /\ w["company_relevance"] = RAdd(default_weights["company_relevance"], Dec(5))
               /\ w["education"] = RSub(default_weights["education"], Dec(5))
               /\ w["tenure_stability"] = RSub(default_weights["tenure_stability"], Dec(5))
               /\ NearOne(SixSum(w))

(* C3: with use_gpt4 false, a call returns what the same call returns on   *)
(* a calculator as constructed, whatever calls came before it: total,      *)
(* component scores, details and recommendations are identical.            *)
C3_LocalIdempotent ==
    (Done /\ ~Req.use_gpt4) => last.result = LocalReference(Req)

(* the calculator has served an earlier request (the one that supplied the *)
(* key and replaced the calculator), and now answers a local call          *)
C3_Witness ==
    /\ Ok /\ ~Req.use_gpt4 /\ ~Req.openai_api_key
    /\ environ_key /\ ~boot_key
    /\ Req.collateral # {}

(* C4: with use_gpt4 true and the Insight Service unavailable (no client,  *)
(* or every call raising), a call whose other arguments are well formed    *)
(* raises nothing and returns a complete result with a non-empty           *)
(* recommendation list.                                                    *)
C4_InsightUnavailable ==
    (Done /\ Req.use_gpt4 /\ (~last.consulted \/ AllFail(last.insight))
          /\ (Req.company_weights = EmptyDict \/ ~Malformed(Req.company_weights)))
        => /\ last.result.status = "ok"
           /\ Len(last.result.recommendations) >= 1
           /\ HasFactorKeys(last.result.details.weights_used)
           /\ DOMAIN last.result.score = {FactorKeys[i] : i \in 1..Len(FactorKeys)}

C4_Witness ==
    Ok /\ Req.use_gpt4 /\ last.consulted /\ AllFail(last.insight)
       /\ last.calls = <<"context", "criteria", "weights", "skills", "elite">>

(* C5: when every Insight call fails, the call (no collateral, no          *)
(* company_weights) returns the weights, total, component scores and       *)
(* recommendations of the same call made with use_gpt4 false.              *)
C5_FailureEqualsLocal ==
    (Ok /\ last.consulted /\ AllFail(last.insight)
        /\ Req.collateral = {} /\ Req.company_weights = EmptyDict)
        => LET ref == LocalReference(Req)
           IN  /\ last.result.details.weights_used = ref.details.weights_used
               /\ last.result.total_score = ref.total_score
               /\ last.result.score = ref.score
               /\ last.result.recommendations = ref.recommendations

(* C6: a malformed weight vector from the caller or from the Insight       *)
(* Service is rejected: the call raises nothing and uses well-formed       *)
(* local weights instead.                                                  *)
C6_MalformedRejected ==
    (Done /\ \/ (~last.consulted /\ Req.company_weights # EmptyDict
                    /\ Malformed(Req.company_weights))
             \/ (last.consulted /\ last.insight.weights.kind = "dict"
                    /\ Malformed(last.insight.weights.val)))
        => /\ last.result.status = "ok"
           /\ ~Malformed(last.result.details.weights_used)

(* C7: a request without openai_api_key consults the Insight Service       *)
(* exactly when it would on a freshly started process, whatever requests   *)
(* came before it.                                                         *)
C7_StatelessRequests ==
    (Done /\ last.kind \in {"json", "form"} /\ ~Req.openai_api_key)
        => (last.consulted <=> (Req.use_gpt4 /\ NewCalculator(FALSE, boot_key).client))

Product(k) == RMul(last.result.score[k], last.result.details.weights_used[k])

(* C8: total_score is the sum over the six weighted factors of score times *)
(* the weight in details.weights_used, plus red_flags_penalty as it is,    *)
(* never multiplied by a weight.                                           *)
C8_TotalIsWeightedSum ==
    Ok => last.result.total_score =
            RAdd(RAdd(RAdd(RAdd(RAdd(RAdd(Product("education"),
                                          Product("career_trajectory")),
                                     Product("company_relevance")),
                                Product("tenure_stability")),
                           Product("most_important_skills")),
                      Product("bonus_signals")),
                 last.result.red_flags_penalty)

C8_Witness ==
    /\ Ok /\ last.consulted
    /\ RLt(last.result.red_flags_penalty, R(0, 1))
    /\ last.result.details.weights_used # default_weights
    /\ last.result.details.weights_used["red_flags"] # R(1, 1)

(* C9: the serialized submittable flag (to_dict and both endpoints) is     *)
(* true exactly when total_score >= 8.2, exactly when the first            *)
(* recommendation is the SUBMITTABLE line, and false exactly when it is    *)
(* the REJECT line; a total of exactly 8.2 is submittable.                 *)
C9_SubmittableAgrees ==
    (Done /\ last.response.status = "ok")
        => LET first == Head(last.response.recommendations)
           IN  /\ last.response.submittable <=> RGe(last.result.total_score, Tenths(82))
               /\ last.response.submittable <=> first = SUBMIT_LINE
               /\ ~last.response.submittable <=> first = REJECT_LINE
               /\ to_dict(last.result).submittable = last.response.submittable

C9_Witness ==
    /\ Ok /\ last.kind = "form"
    /\ last.result.total_score = Tenths(82)
    /\ last.response.submittable
    /\ Head(last.response.recommendations) = SUBMIT_LINE

----------------------------------------------------------------------------
(* _generate_recommendations on its own, over scores on and around its     *)
(* thresholds.                                                             *)

TotalGrid == {Tenths(81), Tenths(82), Tenths(83)}

ScoreGrid == {Tenths(59), Tenths(60), Tenths(61)}

PenaltyGrid == {R(0, 1), R(-5, 1), R(-10, 1)}

Recommend ==
    /\ last = Idle
    /\ \E final \in TotalGrid, education_score \in ScoreGrid, career_score \in ScoreGrid,
          company_score \in ScoreGrid, tenure_score \in ScoreGrid,
          skills_score \in ScoreGrid, red_flags_penalty \in PenaltyGrid :
        last' = [kind |-> "recommend",
                 final_score |-> final,
                 education_score |-> education_score,
                 career_score |-> career_score,
                 company_score |-> company_score,
                 tenure_score |-> tenure_score,
                 skills_score |-> skills_score,
                 red_flags_penalty |-> red_flags_penalty,
                 recommendations |->
                     generate_recommendations(final, education_score, career_score,
                                              company_score, tenure_score, skills_score,
                                              R(0, 1), red_flags_penalty)]
    /\ UNCHANGED <<environ_key, boot_key, calculator>>

InitRecommend ==
    /\ environ_key = FALSE
    /\ boot_key = FALSE
    /\ calculator = NewCalculator(FALSE, FALSE)
    /\ last = Idle

NextRecommend == Recommend \/ Deliver

SpecRecommend == InitRecommend /\ [][NextRecommend]_vars

PrimaryLines == {SUBMIT_LINE, REJECT_LINE}

(* the follow-up lines in their fixed order *)
FollowUps == <<EDUCATION_LINE, CAREER_LINE, COMPANY_LINE, TENURE_LINE, SKILLS_LINE,
               RED_FLAG_LINE>>

Applies(line) ==
    \/ line = EDUCATION_LINE /\ RLt(last.education_score, R(6, 1))
    \/ line = CAREER_LINE /\ RLt(last.career_score, R(6, 1))
    \/ line = COMPANY_LINE /\ RLt(last.company_score, R(6, 1))
    \/ line = TENURE_LINE /\ RLt(last.tenure_score, R(6, 1))
    \/ line = SKILLS_LINE /\ RLt(last.skills_score, R(6, 1))
    \/ line = RED_FLAG_LINE /\ RLt(last.red_flags_penalty, R(-5, 1))

Rank(line) == CHOOSE i \in 1..Len(FollowUps) : FollowUps[i] = line

(* C10: the recommendation list is one primary line, then the concern line *)
(* of each component below 6.0 in the order education, career, company,    *)
(* tenure, skills, then the red-flag warning when the penalty is below     *)
(* -5.0; no line twice, none without its condition.                        *)
C10_RecommendationList ==
    (last.kind = "recommend")
        => LET r == last.recommendations
           IN  /\ Len(r) >= 1
               /\ r[1] \in PrimaryLines
               /\ r[1] = SUBMIT_LINE <=> RGe(last.final_score, Tenths(82))
               /\ \A i \in 2..Len(r) : \E j \in 1..Len(FollowUps) : r[i] = FollowUps[j]
               /\ \A j \in 1..Len(FollowUps) :
                    (\E i \in 2..Len(r) : r[i] = FollowUps[j]) <=> Applies(FollowUps[j])
               /\ \A i, j \in 2..Len(r) : i < j => Rank(r[i]) < Rank(r[j])

(* scores on the thresholds, where no concern applies, beside one below *)
C10_Witness ==
    /\ last.kind = "recommend"
    /\ last.education_score = R(6, 1)
    /\ last.red_flags_penalty = R(-5, 1)
    /\ last.final_score = Tenths(82)
    /\ last.recommendations = <<SUBMIT_LINE, CAREER_LINE, SKILLS_LINE>>

----------------------------------------------------------------------------
(* The scorers on their own, and whole local evaluations of scenario       *)
(* resumes: flag keywords, the institute listing, empty extractions.       *)

MaxFlags == 3

Elements(seq) == {seq[i] : i \in 1..Len(seq)}

FlagWords == Elements(major_flags) \cup Elements(moderate_flags) \cup Elements(minor_flags)

(* A resume whose text holds the given keywords and nothing extractable *)
Noted(words) == [institutions |-> <<>>, degrees |-> <<>>, work |-> <<>>, extra |-> words]

FlaggedResumes == {Noted(flags) : flags \in {f \in SUBSET FlagWords : Cardinality(f) <= MaxFlags}}

(* "Massachusetts Institute of Technology, Bachelor of Science in Computer *)
(* Science", then "Senior Software Engineer / Google Inc. /                *)
(* 2020-2023 (3 years)".  The institution pattern stops at "Institute"     *)
(* and captures "Massachusetts Institute", a text that holds no school     *)
(* name of the tables; the degree pattern captures "Bachelor" and the      *)
(* letters after "of".                                                     *)
InstituteListing ==
    [institutions |-> <<{"massachusetts institute"}>>,
     degrees |-> <<[keyword |-> {"bachelor"}, field |-> {"science", "computer"}]>>,
     work |-> <<[title |-> {"senior", "software", "engineer"},
                 company |-> Closure({"google", "inc"}),
                 duration |-> Duration({3}, {3}, {}), description |-> {}]>>,
     extra |-> {}]

(* An internship and a position without a duration line: no valid tenure *)
NoFullTime == Plain(<<Career[3], Career[4]>>)

ScenarioResumes == FlaggedResumes \cup Resumes \cup {InstituteListing, NoFullTime}

ScenarioJobs == JobDescriptions \cup {{"python", "react", "aws"}}

(* calculate_fitscore(resume_text, job_description, use_gpt4=False) on a   *)
(* calculator as constructed                                               *)
EvaluateLocal ==
    /\ last = Idle
    /\ \E resume \in ScenarioResumes, job_description \in ScenarioJobs :
        last' = [kind |-> "local", resume |-> resume,
                 job_description |-> job_description,
                 result |-> calculate_fitscore(NewCalculator(FALSE, FALSE), resume,
                                job_description, {}, EmptyDict, FALSE, NoInsight,
                                Scores(resume, job_description)).result]
    /\ UNCHANGED <<environ_key, boot_key, calculator>>

MaxNames == 2

(* School names and other words an institution name can hold *)
InstitutionWords ==
    {"mit", "virginia tech", "nyu law", "harvard law", "georgia tech", "ucla",
     "waterloo", "university", "other"}

InstitutionNames ==
    {Closure(words) : words \in {w \in SUBSET InstitutionWords : Cardinality(w) <= MaxNames}}

DegreeTypes == {{}, {"unknown"}, {"master"}}

Fields == {{}, {"general"}, {"computer"}, {"law"}}

(* _score_institution and _get_institution_tier on one entry *)
ScoreInstitution ==
    /\ last = Idle
    /\ \E institution \in InstitutionNames, degree_type \in DegreeTypes, field \in Fields :
        last' = [kind |-> "institution", institution |-> institution,
                 degree_type |-> degree_type, field |-> field,
                 score |-> score_institution(institution, degree_type, field),
                 tier |-> get_institution_tier(institution)]
    /\ UNCHANGED <<environ_key, boot_key, calculator>>

MaxEntries == 2

(* Matches of the institution pattern and of the degree pattern *)
ListedInstitutions ==
    {Closure({"mit"}), Closure({"ucla", "university"}), {"university"}, {"institute"}}

ListedDegrees ==
    {[keyword |-> {"master"}, field |-> {"computer"}],
     [keyword |-> {"bachelor"}, field |-> {"computer", "master"}]}

SeqsUpTo(set, n) == UNION {[1..k -> set] : k \in 0..n}

EducationResumes ==
    {[institutions |-> institutions, degrees |-> degrees, work |-> <<>>, extra |-> {}] :
        institutions \in SeqsUpTo(ListedInstitutions, MaxEntries),
        degrees \in SeqsUpTo(ListedDegrees, MaxEntries)}

(* _evaluate_education on the entries the two patterns extract *)
EvaluateEducation ==
    /\ last = Idle
    /\ \E resume \in EducationResumes :
        last' = [kind |-> "education", resume |-> resume, out |-> evaluate_education(resume)]
    /\ UNCHANGED <<environ_key, boot_key, calculator>>

MaxTenurePositions == 4

(* Full-time and excluded titles, elite and other employers, and duration  *)
(* lines of each form: "(3 years)", "2019-2021", "6 months", none.         *)
TenurePositions ==
    {[title |-> {"engineer"}, company |-> {"google", "inc"},
      duration |-> Duration({3}, {3}, {}), description |-> {}],
     [title |-> {"engineer"}, company |-> {"acme"},
      duration |-> Duration({}, {2}, {}), description |-> {}],
     [title |-> {"analyst"}, company |-> {"acme"},
      duration |-> Duration({}, {}, {6}), description |-> {}],
     [title |-> {"analyst"}, company |-> {"acme"},
      duration |-> UnknownDuration, description |-> {}],
     [title |-> {"engineer", "intern"}, company |-> {"google", "inc"},
      duration |-> Duration({5}, {5}, {}), description |-> {}],
     [title |-> {"co-op", "engineer"}, company |-> {"acme"},
      duration |-> Duration({}, {}, {6}), description |-> {}],
     [title |-> {"part-time", "analyst"}, company |-> {"acme"},
      duration |-> UnknownDuration, description |-> {}]}

(* _evaluate_tenure_stability on a list of extracted positions *)
EvaluateTenure ==
    /\ last = Idle
    /\ \E work \in SeqsUpTo(TenurePositions, MaxTenurePositions) :
        last' = [kind |-> "tenure", work |-> work, out |-> evaluate_tenure_stability(Plain(work))]
    /\ UNCHANGED <<environ_key, boot_key, calculator>>

MaxSkills == 10

(* Vocabulary words a text can name, "javascript" holding "java" *)
SkillPool ==
    <<"python", "javascript", "react", "aws", "docker", "sql", "rust", "php", "ruby",
      "swift", "kotlin", "scala">>

Naming(n) == Closure({SkillPool[i] : i \in 1..n})

(* _evaluate_most_important_skills on a resume naming the first k words of *)
(* the pool and a job description naming the first n                       *)
EvaluateSkills ==
    /\ last = Idle
    /\ \E k \in 0..MaxSkills, n \in 0..MaxSkills :
        last' = [kind |-> "skills", resume_text |-> Naming(k), job_description |-> Naming(n),
                 out |-> evaluate_most_important_skills(Naming(k), Naming(n))]
    /\ UNCHANGED <<environ_key, boot_key, calculator>>

(* Positions as extracted (every title holds a title keyword), each with   *)
(* the end year its duration line names; end_year is no key of the entry   *)
(* the extractor builds, it stays inside the duration string.              *)
CareerPositions ==
    {[title |-> {"director"}, company |-> {"acme"}, duration |-> Duration({}, {4}, {}),
      description |-> {"led", "team"}, end_year |-> 2024],
     [title |-> {"manager"}, company |-> {"acme"}, duration |-> Duration({}, {2}, {}),
      description |-> {"team"}, end_year |-> 2022],
     [title |-> {"senior", "engineer"}, company |-> {"acme"}, duration |-> Duration({}, {2}, {}),
      description |-> {"owned"}, end_year |-> 2020],
     [title |-> {"engineer"}, company |-> {"acme"}, duration |-> Duration({}, {4}, {}),
      description |-> {}, end_year |-> 2016],
     [title |-> {"consultant"}, company |-> {"acme"}, duration |-> Duration({}, {2}, {}),
      description |-> {"owned"}, end_year |-> 2012],
     [title |-> {"consultant"}, company |-> {"acme"}, duration |-> Duration({}, {2}, {}),
      description |-> {}, end_year |-> 2010]}

(* _evaluate_career_trajectory on a list of extracted positions in         *)
(* document order                                                          *)
EvaluateCareer ==
    /\ last = Idle
    /\ \E work \in SeqsUpTo(CareerPositions, MaxTenurePositions) :
        last' = [kind |-> "career", work |-> work,
                 ranked |-> SortByEndDate(extract_work_experience(Plain(work))),
                 out |-> evaluate_career_trajectory(Plain(work))]
    /\ UNCHANGED <<environ_key, boot_key, calculator>>

(* Work-experience extraction line by line.  A line is what the scan tests *)
(* of it: a title keyword, a company indicator, a duration pattern, a      *)
(* leading bullet, emptiness after strip(), a section-header keyword.      *)
ResumeLine(title, company, duration, bullet, blank, header) ==
    [title |-> title, company |-> company, duration |-> duration,
     bullet |-> bullet, blank |-> blank, header |-> header]

TitleLine == ResumeLine(TRUE, FALSE, FALSE, FALSE, FALSE, FALSE)
CompanyLine == ResumeLine(FALSE, TRUE, FALSE, FALSE, FALSE, FALSE)
DurationLine == ResumeLine(FALSE, FALSE, TRUE, FALSE, FALSE, FALSE)
BulletLine == ResumeLine(FALSE, FALSE, FALSE, TRUE, FALSE, FALSE)
BlankLine == ResumeLine(FALSE, FALSE, FALSE, FALSE, TRUE, FALSE)
HeaderLine == ResumeLine(FALSE, FALSE, FALSE, FALSE, FALSE, TRUE)
HeaderCompanyLine == ResumeLine(FALSE, TRUE, FALSE, FALSE, FALSE, TRUE)

LineKinds ==
    {TitleLine, CompanyLine, DurationLine, BulletLine, BlankLine, HeaderLine, HeaderCompanyLine}

CompanyWindow == 4
DescriptionWindow == 9

Last(i, window, lines) == IF i + window < Len(lines) THEN i + window ELSE Len(lines)

(* The company taken from a line with a section-header keyword as well *)
RECURSIVE company_from_any(_, _, _)
company_from_any(lines, j, end) ==
    IF j > end THEN 0
    ELSE IF ~lines[j].blank /\ lines[j].company THEN j
    ELSE company_from_any(lines, j + 1, end)

(* for j in range(i+1, min(i+5, len(lines))): the first line that is not   *)
(* empty, holds no section-header keyword and holds a company indicator    *)
RECURSIVE company_from(_, _, _)

company_from(lines, j, end) ==
    IF j > end THEN 0
    ELSE IF ~lines[j].blank /\ ~lines[j].header /\ lines[j].company THEN j
    ELSE company_from(lines, j + 1, end)

(* for j in range(i+1, min(i+5, len(lines))): the first line matching a    *)
(* duration pattern                                                        *)
RECURSIVE duration_from(_, _, _)
duration_from(lines, j, end) ==
    IF j > end THEN 0
    ELSE IF lines[j].duration THEN j
    ELSE duration_from(lines, j + 1, end)

(* for j in range(i+1, min(i+10, len(lines))): bullet lines are appended;  *)
(* a line that is neither a bullet, nor empty, nor a section header breaks *)
RECURSIVE description_from(_, _, _)
description_from(lines, j, end) ==
    IF j > end THEN <<>>
    ELSE IF lines[j].bullet THEN <<j>> \o description_from(lines, j + 1, end)
    ELSE IF ~lines[j].blank /\ ~lines[j].header THEN <<>>
    ELSE description_from(lines, j + 1, end)

(* The entries, each naming its lines by their index (company 0 is         *)
(* "Unknown Company", duration 0 is "Unknown")                             *)
RECURSIVE scan_work_experience(_, _)
scan_work_experience(lines, i) ==
    IF i > Len(lines) THEN <<>>
    ELSE IF lines[i].title
    THEN <<[title |-> i,
            company |-> company_from(lines, i + 1, Last(i, CompanyWindow, lines)),
            duration |-> duration_from(lines, i + 1, Last(i, CompanyWindow, lines)),
            description |-> description_from(lines, i + 1, Last(i, DescriptionWindow, lines))]>>
         \o scan_work_experience(lines, i + 1)
    ELSE scan_work_experience(lines, i + 1)

MaxPad == 9
MaxTail == 3

(* Resume texts: an optional title line, a run of bullet or empty lines,   *)
(* then any lines                                                          *)
ResumeLines ==
    {head \o [i \in 1..k |-> filler] \o tail :
        head \in {<<>>, <<TitleLine>>}, k \in 0..MaxPad, filler \in {BulletLine, BlankLine},
        tail \in SeqsUpTo(LineKinds, MaxTail)}

(* _extract_work_experience on the lines of a resume *)
ExtractWork ==
    /\ last = Idle
    /\ \E lines \in ResumeLines :
        last' = [kind |-> "work", lines |-> lines, out |-> scan_work_experience(lines, 1)]
    /\ UNCHANGED <<environ_key, boot_key, calculator>>

NextExtract == ExtractWork \/ Deliver

SpecExtract == InitRecommend /\ [][NextExtract]_vars

NextScorers ==
    \/ EvaluateLocal
    \/ EvaluateCareer
    \/ ScoreInstitution
    \/ EvaluateEducation
    \/ EvaluateTenure
    \/ EvaluateSkills
    \/ Deliver

SpecScorers == InitRecommend /\ [][NextScorers]_vars

Evaluated == last.kind = "local" /\ last.result.status = "ok"

Present(words) == Cardinality({w \in Elements(words) : w \in ResumeText(last.resume)})

TotalOf(resume) ==
    calculate_fitscore(NewCalculator(FALSE, FALSE), resume, last.job_description, {},
                       EmptyDict, FALSE, NoInsight,
                       Scores(resume, last.job_description)).result.total_score

(* C11: the red-flags penalty is -(15 per major + 10 per moderate + 5 per  *)
(* minor flag keyword present), each keyword once, never positive, not     *)
(* capped; "plagiarized" with "job hopping" gives exactly -25, a total 25  *)
(* below that of the resume without them, and the red-flag line.           *)
C11_RedFlagPenalty ==
    Evaluated
        => /\ last.result.red_flags_penalty =
                R(0 - (15 * Present(major_flags) + 10 * Present(moderate_flags)
                          + 5 * Present(minor_flags)), 1)
           /\ RLe(last.result.red_flags_penalty, R(0, 1))
           /\ (ResumeText(last.resume) \cap FlagWords = {"plagiarized", "job hopping"})
                => /\ last.result.red_flags_penalty = R(-25, 1)
                   /\ last.result.total_score =
                        RSub(TotalOf([last.resume EXCEPT !.extra = @ \ FlagWords]), R(25, 1))
                   /\ RED_FLAG_LINE \in Elements(last.result.recommendations)

C11_Witness ==
    /\ Evaluated
    /\ last.resume.extra = {"plagiarized", "job hopping"}
    /\ last.resume.work = <<>>
    /\ last.result.red_flags_penalty = R(-25, 1)
    /\ last.result.total_score = Tenths(-233)
    /\ RED_FLAG_LINE \in Elements(last.result.recommendations)

(* C12: the resume listing "Massachusetts Institute of Technology,         *)
(* Bachelor of Science in Computer Science" has its institution classified *)
(* Tier 1 and an Education score of at least 9.0.                          *)
C12_InstituteListing ==
    (Evaluated /\ last.resume = InstituteListing)
        => /\ last.result.details.scorers.education.institutions[1].tier[1] = "Tier 1"
           /\ RGe(last.result.score.education, R(9, 1))

(* The indexes of the table's categories one of whose names the text holds *)
Matching(table, text) ==
    {i \in 1..Len(table) : \E j \in 1..Len(table[i].schools) : table[i].schools[j] \in text}

Earliest(indexes) == CHOOSE i \in indexes : \A j \in indexes : i <= j

(* C13: a name holding both a Tier 1 and a Tier 2 entry takes the Tier 1   *)
(* branch (score >= 9.5, label "Tier 1"); the other branches are reached   *)
(* only when no Tier 1 entry matches; the first matching category in table *)
(* order alone decides the label and the specialty bonus.                  *)
C13_Tier1Precedence ==
    (last.kind = "institution")
        => LET m1 == Matching(tier1_schools, last.institution)
               m2 == Matching(tier2_schools, last.institution)
               graduate == last.degree_type \cap {"master", "phd"} # {}
           IN  /\ (m1 # {} /\ m2 # {})
                    => (RGe(last.score, Tenths(95)) /\ last.tier[1] = "Tier 1")
               /\ (RLt(last.score, Tenths(95)) \/ last.tier[1] # "Tier 1") => m1 = {}
               /\ m1 # {}
                    => LET first == tier1_schools[Earliest(m1)].category
                           special == last.field # {} /\ is_specialty_match(last.field, first)
                       IN  /\ last.tier = <<"Tier 1", first>>
                           /\ last.score =
                                IF special THEN R(10, 1)
                                ELSE IF graduate THEN Tenths(98) ELSE Tenths(95)
               /\ (m1 = {} /\ m2 # {})
                    => /\ last.tier = <<"Tier 2", tier2_schools[Earliest(m2)].category>>
                       /\ RGe(last.score, Tenths(75)) /\ RLe(last.score, Tenths(85))

(* "NYU Law ... UCLA": LAW_ELITE of Tier 1, "nyu" and "ucla" of Tier 2 *)
C13_Witness ==
    /\ last.kind = "institution"
    /\ {"nyu law", "nyu", "ucla"} \subseteq last.institution
    /\ last.field = {"law"}
    /\ last.tier = <<"Tier 1", "LAW_ELITE">>
    /\ last.score = R(10, 1)

(* C15: the Education score lies in [1.0, 10.0] for every list of          *)
(* extracted education entries; the empty list scores 1.0.                 *)
C15_EducationRange ==
    (last.kind = "education")
        => /\ RGe(last.out.score, R(1, 1))
           /\ RLe(last.out.score, R(10, 1))
           /\ (extract_education_info(last.resume) = <<>>) => last.out.score = R(1, 1)

(* A Tier 1 institution and a degree line naming a master's: the average   *)
(* (9.5 + 3.0) / 2 with the graduate boost                                 *)
C15_Witness ==
    /\ last.kind = "education"
    /\ last.resume.institutions = <<Closure({"mit"})>>
    /\ Len(last.resume.degrees) = 1
    /\ last.out.strengths # <<>>
    /\ last.out.score = R(29, 4)

TitleExcluded(position) == position.title \cap {"intern", "co-op", "part-time"} # {}

(* The positions counted for the average: title not excluded, years > 0 *)
FullTime(work) ==
    SelectSeq(work, LAMBDA p : ~TitleExcluded(p) /\ RLt(R(0, 1), calculate_tenure_years(p.duration)))

YearsOf(positions) ==
    RSumSeq([i \in 1..Len(positions) |-> calculate_tenure_years(positions[i].duration)])

(* The list with the duration line of every excluded position removed *)
Neutral(work) ==
    [i \in 1..Len(work) |->
        IF TitleExcluded(work[i]) THEN [work[i] EXCEPT !.duration = UnknownDuration] ELSE work[i]]

ExclusionHolds ==
    LET full == FullTime(last.work)
        neutral == evaluate_tenure_stability(Plain(Neutral(last.work)))
    IN  /\ (last.out.error = "") <=> (full # <<>>)
        /\ (full # <<>>) => last.out.average_tenure = RDiv(YearsOf(full), R(Len(full), 1))
        /\ last.out.average_tenure = neutral.average_tenure
        /\ last.out.score = neutral.score

Recorded(position) == position \in Elements(last.out.excluded_positions)

(* C14 as stated: for every list of positions, a position titled intern,   *)
(* co-op or part-time adds nothing to the tenure total or the valid count  *)
(* whatever its duration, and is recorded in excluded_positions.           *)
C14_Original ==
    (last.kind = "tenure")
        => /\ ExclusionHolds
           /\ \A i \in 1..Len(last.work) : TitleExcluded(last.work[i]) => Recorded(last.work[i])

(* C14: a position titled intern, co-op or part-time adds nothing to the   *)
(* tenure total or the valid count whatever its duration, so its duration  *)
(* never changes average_tenure or the score; it is recorded in            *)
(* excluded_positions whenever the scorer returns its full details, that   *)
(* is whenever some valid full-time position exists.                       *)
C14_InternshipExclusion ==
    (last.kind = "tenure")
        => /\ ExclusionHolds
           /\ (last.out.error = "")
                => \A i \in 1..Len(last.work) : TitleExcluded(last.work[i]) => Recorded(last.work[i])

(* A 2-year position, a 5-year internship and a 6-month co-op: average 2.0 *)
C14_Witness ==
    /\ last.kind = "tenure"
    /\ Len(last.work) = 3
    /\ Len(FullTime(last.work)) = 1
    /\ Len(last.out.excluded_positions) = 2
    /\ \E i \in 1..3 : TitleExcluded(last.work[i])
                        /\ calculate_tenure_years(last.work[i].duration) = R(5, 1)
    /\ last.out.average_tenure = R(2, 1)

(* The 7-band ladder on the average tenure-years *)
Band(avg) ==
    IF RGe(avg, R(3, 1)) THEN Tenths(95)
    ELSE IF RGe(avg, Tenths(25)) THEN Tenths(85)
    ELSE IF RGe(avg, R(2, 1)) THEN Tenths(75)
    ELSE IF RGe(avg, Tenths(15)) THEN Tenths(65)
    ELSE IF RGe(avg, R(1, 1)) THEN Tenths(55)
    ELSE IF RGe(avg, Tenths(5)) THEN R(4, 1)
    ELSE R(1, 1)

C17_SkillsLadder ==
    (last.kind = "skills")
        => LET required == Elements(tech_skills) \cap last.job_description
               found == Cardinality(required \cap last.resume_text)
               all == Cardinality(required)
               matched == Elements(last.out.matches)
               missing == Elements(last.out.missing)
           IN  /\ last.out.score =
                    IF all = 0 THEN R(5, 1)
                    ELSE IF 100 * found >= 90 * all THEN R(9, 1)
                    ELSE IF 100 * found >= 80 * all THEN Tenths(75)
                    ELSE IF 100 * found >= 70 * all THEN R(6, 1)
                    ELSE IF 100 * found >= 50 * all THEN R(4, 1)
                    ELSE R(1, 1)
               /\ (all # 0)
                    => /\ matched \cup missing = required
                       /\ matched \cap missing = {}
                       /\ Len(last.out.matches) + Len(last.out.missing) = all
                       /\ matched = required \cap last.resume_text

(* Nine of ten required skills found: exactly 90% *)
C17_Witness ==
    /\ last.kind = "skills"
    /\ Len(last.out.matches) = 9
    /\ Len(last.out.missing) = 1
    /\ last.out.score = R(9, 1)

(* C18: nothing extracted is never an error: no education entry gives      *)
(* Education 1.0, no work experience gives Career Trajectory, Company      *)
(* Relevance and Tenure Stability 1.0 each, no valid full-time tenure      *)
(* gives Tenure Stability 1.0, no recognized required skill gives Skills   *)
(* Match 5.0, each with a concern or error entry in the scorer's details;  *)
(* an empty resume with an empty job description gets a complete result.   *)
C18_EmptyExtraction ==
    (last.kind = "local")
        => /\ last.result.status = "ok"
           /\ LET score == last.result.score
                  scorers == last.result.details.scorers
                  work == extract_work_experience(last.resume)
              IN  /\ (extract_education_info(last.resume) = <<>>)
                       => /\ score.education = R(1, 1)
                          /\ scorers.education.concerns # <<>>
                  /\ (work = <<>>)
                       => /\ score.career_trajectory = R(1, 1)
                          /\ scorers.career_trajectory.error # ""
                          /\ score.company_relevance = R(1, 1)
                          /\ scorers.company_relevance.error # ""
                  /\ (FullTime(work) = <<>>)
                       => /\ score.tenure_stability = R(1, 1)
                          /\ scorers.tenure_stability.error # ""
                  /\ (Elements(tech_skills) \cap last.job_description = {})
                       => /\ score.most_important_skills = R(5, 1)
                          /\ scorers.most_important_skills.error # ""
                  /\ (last.resume = Noted({}) /\ last.job_description = {})
                       => /\ last.result.total_score = Tenths(17)
                          /\ last.result.red_flags_penalty = R(0, 1)
                          /\ last.result.recommendations # <<>>

(* The empty resume against the empty job description: 1.0 four times,     *)
(* Skills 5.0, total 1.7                                                   *)
C18_Witness ==
    /\ last.kind = "local"
    /\ last.resume = Noted({})
    /\ last.job_description = {}
    /\ last.result.status = "ok"
    /\ last.result.score.tenure_stability = R(1, 1)
    /\ last.result.score.most_important_skills = R(5, 1)
    /\ last.result.details.scorers.company_relevance.error = "No work experience found"
    /\ last.result.total_score = Tenths(17)

(* C19: no evaluation changes shared state: on every path the calculator's *)
(* default_weights are as constructed after the call, and a company_weights *)
(* mapping passed by the caller holds after the call what it held before.  *)
C19_NoSharedMutation ==
    /\ calculator.default_weights = default_weights
    /\ Done => last.company_weights_after = Req.company_weights

(* A local call with caller weights and a "startup" collateral: the        *)
(* weights used are shifted and normalised, the caller's mapping is not    *)
C19_Witness ==
    /\ Ok /\ last.kind = "lib" /\ ~last.consulted
    /\ Req.company_weights = TenureHeavy
    /\ Req.collateral = {"startup"}
    /\ last.result.details.weights_used # TenureHeavy
    /\ last.company_weights_after = TenureHeavy

(* C20: details.weights_used is an object created for that evaluation,     *)
(* never the calculator's default_weights nor the caller's company_weights. *)
C20_FreshWeights ==
    Ok => last.result.details.weights_ref = "fresh"

Graduate(degree_type) == degree_type \cap {"master", "phd"} # {}

(* base, plus 0.5 on a specialty match with the category, plus 0.3 for a   *)
(* graduate degree, capped                                                 *)
WithBonuses(base, category, cap) ==
    RMin(cap, RAdd(RAdd(base, IF last.field # {} /\ is_specialty_match(last.field, category)
                              THEN Tenths(5) ELSE R(0, 1)),
                   IF Graduate(last.degree_type) THEN Tenths(3) ELSE R(0, 1)))

(* The branch of _score_institution the entry takes *)
Branch ==
    IF Matching(tier1_schools, last.institution) # {} THEN "tier1"
    ELSE IF Matching(tier2_schools, last.institution) # {} THEN "tier2"
    ELSE IF \E i \in Matching(specialty_programs, last.institution) :
               last.field # {} /\ is_specialty_match(last.field, specialty_programs[i].category)
    THEN "specialty"
    ELSE IF {"university", "college"} \cap last.institution # {} THEN "generic"
    ELSE "other"

(* C21: _score_institution is in [3.0, 10.0]: 9.5 (Tier 1), 7.5 (Tier 2),  *)
(* 8.0 flat (specialty program), 5.0 (generic university or college), 3.0  *)
(* otherwise, plus 0.5 on a specialty match and 0.3 for a graduate degree, *)
(* capped at 10.0, 8.5 and 6.5.                                            *)
C21_InstitutionScore ==
    (last.kind = "institution")
        => /\ RGe(last.score, R(3, 1)) /\ RLe(last.score, R(10, 1))
           /\ last.score =
                CASE Branch = "tier1" ->
                        WithBonuses(Tenths(95), tier1_schools[Earliest(Matching(tier1_schools, last.institution))].category, R(10, 1))
                  [] Branch = "tier2" ->
                        WithBonuses(Tenths(75), tier2_schools[Earliest(Matching(tier2_schools, last.institution))].category, Tenths(85))
                  [] Branch = "specialty" -> R(8, 1)
                  [] Branch = "generic" ->
                        RMin(Tenths(65), RAdd(R(5, 1), IF Graduate(last.degree_type) THEN Tenths(3) ELSE R(0, 1)))
                  [] OTHER -> R(3, 1)

(* C22: the label of _get_institution_tier names the branch that produced  *)
(* the score: "Tier 1", "Tier 2", "Specialty" exactly for the flat 8.0     *)
(* specialty score, "Tier 3" exactly for the default 5.0-6.5 or 3.0.       *)
C22_LabelAgreesWithScore ==
    (last.kind = "institution")
        => /\ (last.tier[1] = "Tier 1") <=> (Branch = "tier1")
           /\ (last.tier[1] = "Tier 2") <=> (Branch = "tier2")
           /\ (last.tier[1] = "Specialty") <=> (Branch = "specialty")
           /\ (last.tier[1] = "Tier 3") <=> (Branch \in {"generic", "other"})

(* The fixed ladder over the composite scores of the first three positions *)
(* of the list and the indicator counts over all of them; the three-band   *)
(* classification of the average for one or two positions                  *)
LadderOn(work) ==
    LET r(i) == position_score(work[i])
        leadership == Cardinality({i \in 1..Len(work) : AnyIn(leadership_words, work[i].title)})
        scope == Cardinality({i \in 1..Len(work) : AnyIn(scope_words, work[i].description)})
        ownership == Cardinality({i \in 1..Len(work) : AnyIn(ownership_words, work[i].description)})
        avg == RDiv(RSumSeq([i \in 1..Len(work) |-> r(i)]), R(Len(work), 1))
    IN  IF Len(work) >= 3
        THEN CASE RGe(r(1), R(9, 1)) /\ RGe(r(2), R(8, 1)) /\ leadership >= 2 /\ ownership >= 2
                    -> Tenths(95)
               [] OTHER ->
             CASE RLt(r(2), r(1)) /\ RLt(r(3), r(2)) /\ RGe(r(1), Tenths(75)) /\ leadership >= 1
                    -> R(9, 1)
               [] OTHER ->
             CASE RLt(r(3), r(1)) /\ RGe(r(1), R(7, 1)) /\ scope >= 1 -> R(8, 1)
               [] OTHER ->
             CASE RGe(r(1), R(6, 1)) /\ ownership >= 1 -> R(7, 1)
               [] OTHER ->
             CASE RGe(r(1), R(5, 1)) -> R(6, 1)
               [] OTHER ->
             CASE RGe(r(1), R(4, 1)) -> R(4, 1)
               [] OTHER -> R(1, 1)
        ELSE IF RGe(avg, R(8, 1)) THEN R(8, 1)
        ELSE IF RGe(avg, R(6, 1)) THEN R(6, 1)
        ELSE R(4, 1)

(* C23: with at least 3 positions Career Trajectory is the ladder value,   *)
(* first match top-down, over the composite scores of the three positions  *)
(* used and the leadership, ownership and scope counts over all positions; *)
(* with one or two positions it is 8.0, 6.0 or 4.0 by the average          *)
(* composite score; it always lies in [1.0, 9.5].                          *)
C23_CareerLadder ==
    (last.kind = "career")
        => /\ RGe(last.out.score, R(1, 1)) /\ RLe(last.out.score, Tenths(95))
           /\ (last.ranked # <<>>) => last.out.score = LadderOn(last.ranked)

(* Director, senior engineer, engineer: r0 > r1 > r2 with one leadership   *)
(* title and two ownership descriptions, the 9.0 rung                      *)
C23_Witness ==
    /\ last.kind = "career"
    /\ Len(last.work) = 3
    /\ position_score(last.work[1]) = Tenths(135)
    /\ position_score(last.work[2]) = R(8, 1)
    /\ position_score(last.work[3]) = R(5, 1)
    /\ last.out.score = R(9, 1)

DistinctYears(work) == \A i, j \in 1..Len(work) : i # j => work[i].end_year # work[j].end_year

ByRecency(work) == SortSeq(work, LAMBDA p, q : p.end_year > q.end_year)

(* C24: for at least 3 positions the scorer uses them most recent first:   *)
(* r0, r1, r2 belong to the three positions with the latest end dates, r0  *)
(* to the most recent, whatever the order of the resume text.              *)
C24_MostRecentFirst ==
    (last.kind = "career" /\ Len(last.work) >= 3 /\ DistinctYears(last.work))
        => /\ \A i \in 1..3 : last.ranked[i] = ByRecency(last.work)[i]
           /\ last.out.score = LadderOn(ByRecency(last.work))

Stops(line) == ~line.bullet /\ ~line.blank
Titles == {i \in 1..Len(last.lines) : last.lines[i].title}
Entry(i) == CHOOSE e \in Elements(last.out) : e.title = i

(* C25: the description of a title line at index i holds only bullet lines *)
(* among i+1..i+9, in order, up to the first line that is neither a bullet *)
(* nor blank; a section-header line stops the collection, so no bullet     *)
(* after a section header joins the description of a title before it.      *)
C25_DescriptionStopsAtHeader ==
    (last.kind = "work")
        => \A i \in Titles :
              LET description == Entry(i).description
                  stop == {k \in (i + 1)..Len(last.lines) : Stops(last.lines[k])}
              IN  /\ \A n \in 1..Len(description) :
                        /\ description[n] \in (i + 1)..(i + DescriptionWindow)
                        /\ last.lines[description[n]].bullet
                        /\ \A m \in 1..(n - 1) : description[m] < description[n]
                  /\ Elements(description) =
                        {j \in (i + 1)..(i + DescriptionWindow) :
                            /\ j <= Len(last.lines)
                            /\ last.lines[j].bullet
                            /\ \A k \in stop : j < k}

Near(i) == {j \in (i + 1)..(i + CompanyWindow) : j <= Len(last.lines)}
Names(j) == last.lines[j].company /\ ~last.lines[j].header /\ ~last.lines[j].blank

(* C26: every title line yields exactly one entry, in document order; its  *)
(* company is the first line among i+1..i+4 with a company indicator and   *)
(* no section-header keyword (else "Unknown Company"), its duration the    *)
(* first line among i+1..i+4 matching a duration pattern (else "Unknown"), *)
(* each found independently of the other and never beyond i+4.             *)
C26_BoundedWindow ==
    (last.kind = "work")
        => /\ Len(last.out) = Cardinality(Titles)
           /\ \A n \in 1..Len(last.out) :
                 /\ last.out[n].title \in Titles
                 /\ \A m \in 1..(n - 1) : last.out[m].title < last.out[n].title
           /\ \A n \in 1..Len(last.out) :
                 LET i == last.out[n].title
                     company == last.out[n].company
                     duration == last.out[n].duration
                 IN  /\ (company = 0) <=> (\A j \in Near(i) : ~Names(j))
                     /\ (company # 0)
                          => (company \in Near(i) /\ Names(company)
                              /\ \A j \in Near(i) : Names(j) => company <= j)
                     /\ (duration = 0) <=> (\A j \in Near(i) : ~last.lines[j].duration)
                     /\ (duration # 0)
                          => (duration \in Near(i) /\ last.lines[duration].duration
                              /\ \A j \in Near(i) : last.lines[j].duration => duration <= j)

(* A title, four empty lines, then a duration line, a company line and a   *)
(* second title: the first entry finds neither, the second is listed after *)
C26_Witness ==
    /\ last.kind = "work"
    /\ Len(last.lines) = 8
    /\ last.lines[6] = DurationLine /\ last.lines[7] = CompanyLine
    /\ Len(last.out) = 2
    /\ last.out[1] = [title |-> 1, company |-> 0, duration |-> 0, description |-> <<>>]
    /\ last.out[2].title = 8

(* C27: Education is the average of the per-entry institution scores, plus *)
(* 1.0 capped at 10.0 when the resume holds a degree phrase whose keyword  *)
(* is Master or PhD, which "Graduate degree(s) present" then records; with *)
(* no such phrase there is no boost.                                       *)
C27_GraduateBoost ==
    (last.kind = "education" /\ last.out.institutions # <<>>)
        => LET entries == last.out.institutions
               average == RDiv(RSumSeq([i \in 1..Len(entries) |-> entries[i].score]),
                               R(Len(entries), 1))
               graduate == \E i \in 1..Len(last.resume.degrees) :
                              Graduate(last.resume.degrees[i].keyword)
           IN  /\ last.out.score = IF graduate THEN RMin(R(10, 1), RAdd(average, R(1, 1)))
                                   ELSE average
               /\ graduate <=> ("Graduate degree(s) present" \in Elements(last.out.strengths))

InsightSteps == <<"context", "criteria", "weights", "skills", "elite">>

(* The weight call failed, or answered an object with the six factor       *)
(* weights as numbers                                                      *)
WeightsUsable(response) ==
    \/ response.kind = "fail"
    \/ /\ response.kind = "dict"
       /\ HasFactorKeys(response.val)
       /\ \A i \in 1..Len(FactorKeys) : IsNum(response.val[FactorKeys[i]])

(* C28: with the Insight Service consulted the five steps call it in the   *)
(* order context, criteria, weights, skills, elite, each at most once; a   *)
(* failed call is replaced by that step's local fallback value, and        *)
(* neither aborts the evaluation nor keeps the later steps from running.   *)
C28_InsightSteps ==
    (Done /\ last.consulted)
        => LET details == last.result.details
               insight == last.insight
           IN  /\ \E n \in 0..Len(InsightSteps) : last.calls = SubSeq(InsightSteps, 1, n)
               /\ WeightsUsable(insight.weights)
                    => (last.result.status = "ok" /\ last.calls = InsightSteps)
               /\ (last.result.status = "ok")
                    => /\ (insight.context = "fail")
                            => details.context_detection = detect_context_fallback(Req.job_description)
                       /\ (insight.criteria = "fail")
                            => details.smart_criteria = generate_smart_criteria_fallback
                       /\ (insight.weights.kind = "fail")
                            => details.weights_used =
                                 adjust_weights_for_collateral(
                                     [ref |-> "default", val |-> default_weights], {}).val
                       /\ (insight.skills = "fail")
                            => details.skills_analysis =
                                 extract_skills_fallback(ResumeText(Req.resume), Req.job_description)
                       /\ (insight.elite = "fail")
                            => details.elite_evaluation = evaluate_against_smart_criteria_fallback

(* The context and weight calls fail, the other three answer: all five ran *)
C28_Witness ==
    /\ Ok /\ last.consulted
    /\ last.insight.context = "fail" /\ last.insight.weights.kind = "fail"
    /\ last.insight.criteria = "ok" /\ last.insight.skills = "ok" /\ last.insight.elite = "ok"
    /\ last.calls = InsightSteps
    /\ last.result.details.context_detection.source = "fallback"
    /\ last.result.details.skills_analysis.source = "insight"

(* C29: the seven component scores depend on the resume and the job        *)
(* description alone: whatever use_gpt4, the client, the Insight responses, *)
(* the collateral and company_weights, they are the values of the seven    *)
(* scorers on that resume and job description; only the weights and the    *)
(* total can differ.                                                       *)
C29_ScoresIndependent ==
    Ok => LET resume_text == ResumeText(Req.resume)
          IN  /\ last.result.score =
                    [education |-> evaluate_education(Req.resume).score,
                     career_trajectory |-> evaluate_career_trajectory(Req.resume).score,
                     company_relevance |->
                         evaluate_company_relevance(Req.resume, Req.job_description).score,
                     tenure_stability |-> evaluate_tenure_stability(Req.resume).score,
                     most_important_skills |->
                         evaluate_most_important_skills(resume_text, Req.job_description).score,
                     bonus_signals |-> evaluate_bonus_signals(resume_text)]
              /\ last.result.red_flags_penalty = evaluate_red_flags(resume_text)

(* An evaluation the Insight Service answered, with a collateral, whose    *)
(* weights and total differ from the local ones and whose scores do not    *)
C29_Witness ==
    /\ Ok /\ last.consulted
    /\ last.insight.skills = "ok" /\ last.insight.weights.kind = "dict"
    /\ Req.collateral # {}
    /\ Len(Req.resume.work) = MaxPositions
    /\ last.result.details.weights_used # LocalReference(Req).details.weights_used
    /\ last.result.total_score # LocalReference(Req).total_score
    /\ last.result.score = LocalReference(Req).score

TriggerWords == {"startup", "early-stage", "enterprise", "large company", "leadership", "management"}

(* C30: on the local path a collateral text holding no trigger keyword     *)
(* changes nothing: weights used, total score and submit/reject line are   *)
(* those of the same call without collateral.                              *)
C30_NeutralCollateral ==
    (Ok /\ ~last.consulted /\ Req.collateral # {} /\ Req.collateral \cap TriggerWords = {})
        => LET plain == LocalReference([Req EXCEPT !.collateral = {}])
           IN  /\ plain.status = "ok"
               /\ last.result.details.weights_used = plain.details.weights_used
               /\ last.result.total_score = plain.total_score
               /\ last.result.recommendations[1] = plain.recommendations[1]
====
